---- MODULE Spec2Model ----
(***************************************************************************)
(* Model of scripts/grocery_list_generator.py: the quantity parser, the    *)
(* unit and name normalizers, the line parser, the recipe loader, the      *)
(* ingredient merger, the categorizer, the quantity formatter and the      *)
(* assembler of the grocery-list document.                                 *)
(*                                                                         *)
(* An operation that raises returns a value that names the exception in    *)
(* place of its result.                                                    *)
(*                                                                         *)
(* A Python str is a sequence of one-character strings.  A Python float    *)
(* is an IEEE-754 binary64 value, kept exactly as a sign and a fixed-point *)
(* magnitude held in limbs; every arithmetic result is rounded to 53       *)
(* significant bits, round-half-to-even, as the hardware does.             *)
(***************************************************************************)
EXTENDS Integers, Sequences, FiniteSets, TLC

VARIABLES
    pc,     \* position of the first invocation: "call" or "return"
    arg,    \* argument of the first invocation
    ret,    \* value it returned (meaningful once pc = "return")
    pc2,    \* position of the second invocation: "idle", "call" or "return"
    arg2,   \* argument of the second invocation
    ret2,   \* value it returned (meaningful once pc2 = "return")
    frames, \* local variables of the invocations that run step by step
    keywords \* the module-level CATEGORY_KEYWORDS

vars == <<pc, arg, ret, pc2, arg2, ret2, frames, keywords>>

\* Placeholder held by ret/ret2 before the invocation has returned, and by
\* arg2 before the second invocation has been given its argument.
Pending == <<"<pending>">>

\* Python's None.
None == <<"<None>">>

-----------------------------------------------------------------------------
(* Characters and str methods                                              *)

UpperCase == <<"A","B","C","D","E","F","G","H","I","J","K","L","M",
               "N","O","P","Q","R","S","T","U","V","W","X","Y","Z">>

LowerCase == <<"a","b","c","d","e","f","g","h","i","j","k","l","m",
               "n","o","p","q","r","s","t","u","v","w","x","y","z">>

DigitChars == <<"0","1","2","3","4","5","6","7","8","9">>

\* \d on the ASCII alphabet of the model.
IsDigit(c) == \E i \in 1..10 : DigitChars[i] = c

DigitVal(c) == (CHOOSE i \in 1..10 : DigitChars[i] = c) - 1

\* \s and str.isspace() on the alphabet of the model
IsSpace(c) == c \in {" ", "\t", "\n"}

LowerChar(c) ==
    IF \E i \in 1..26 : UpperCase[i] = c
    THEN LowerCase[CHOOSE i \in 1..26 : UpperCase[i] = c]
    ELSE c

\* str.lower()
lower(s) == [i \in 1..Len(s) |-> LowerChar(s[i])]

\* s[i:] for a 1-based i
From(s, i) == SubSeq(s, i, Len(s))

RECURSIVE lstrip(_)
lstrip(s) == IF s # <<>> /\ IsSpace(Head(s)) THEN lstrip(Tail(s)) ELSE s

RECURSIVE rstrip(_)
rstrip(s) ==
    IF s # <<>> /\ IsSpace(s[Len(s)]) THEN rstrip(SubSeq(s, 1, Len(s) - 1)) ELSE s

\* str.strip()
strip(s) == rstrip(lstrip(s))

\* p occurs in s at 1-based index i
MatchAt(s, i, p) == i + Len(p) - 1 <= Len(s) /\ SubSeq(s, i, i + Len(p) - 1) = p

\* the same, ignoring letter case (re.IGNORECASE with a lower-case literal p)
MatchAtI(s, i, p) == MatchAt(lower(s), i, p)

\* s.startswith(p)
startswith(s, p) == MatchAt(s, 1, p)

\* p in s
Contains(s, p) == \E i \in 1..(Len(s) + 1) : MatchAt(s, i, p)

\* the length of the run of whitespace starting at index i (0 when s[i] is not
\* whitespace or i is past the end)
RECURSIVE SpaceRun(_, _)
SpaceRun(s, i) ==
    IF i <= Len(s) /\ IsSpace(s[i]) THEN 1 + SpaceRun(s, i + 1) ELSE 0

RECURSIVE DigitRun(_, _)
DigitRun(s, i) ==
    IF i <= Len(s) /\ IsDigit(s[i]) THEN 1 + DigitRun(s, i + 1) ELSE 0

\* s.split(c) for a one-character separator c
RECURSIVE split_on(_, _)
split_on(s, c) ==
    IF \E i \in 1..Len(s) : s[i] = c
    THEN LET i == CHOOSE j \in 1..Len(s) :
                      s[j] = c /\ \A k \in 1..(j - 1) : s[k] # c
         IN  <<SubSeq(s, 1, i - 1)>> \o split_on(From(s, i + 1), c)
    ELSE <<s>>

\* s.split(): the maximal runs of non-whitespace
RECURSIVE split(_)
split(s) ==
    LET t == lstrip(s)
    IN  IF t = <<>> THEN <<>>
        ELSE LET n == CHOOSE j \in 1..Len(t) :
                          /\ \A k \in 1..j : ~IsSpace(t[k])
                          /\ (j = Len(t) \/ IsSpace(t[j + 1]))
             IN  <<SubSeq(t, 1, n)>> \o split(From(t, n + 1))

\* " ".join(words)
RECURSIVE join(_)
join(words) ==
    IF words = <<>> THEN <<>>
    ELSE IF Len(words) = 1 THEN words[1]
    ELSE words[1] \o <<" ">> \o join(Tail(words))

\* int(digits) for a run of decimal digits ('' reads as 0, as `or "0"` does)
RECURSIVE IntOf(_)
IntOf(ds) ==
    IF ds = <<>> THEN 0
    ELSE IntOf(SubSeq(ds, 1, Len(ds) - 1)) * 10 + DigitVal(ds[Len(ds)])

-----------------------------------------------------------------------------
(* Python float: IEEE-754 binary64                                         *)
(*                                                                         *)
(* A magnitude is a natural number N standing for N * 2^-FracBits, held    *)
(* little-endian in NumLimbs limbs of LimbBits bits.  Every binary64 value *)
(* between 2^-(FracBits-52) and 2^LimbBits is such a number, sums and      *)
(* differences of them are formed exactly and then rounded once.           *)

LimbBits == 15
Base == 2^LimbBits
FracLimbs == 5
NumLimbs == FracLimbs + 1
FracBits == FracLimbs * LimbBits

\* significand width of binary64
MantBits == 53

NZero == [j \in 1..NumLimbs |-> 0]

RECURSIVE NAddFrom(_, _, _, _)
NAddFrom(a, b, j, carry) ==
    IF j > NumLimbs THEN <<>>
    ELSE LET t == a[j] + b[j] + carry
         IN  <<t % Base>> \o NAddFrom(a, b, j + 1, t \div Base)

NAdd(a, b) == NAddFrom(a, b, 1, 0)

\* a - b for a >= b
RECURSIVE NSubFrom(_, _, _, _)
NSubFrom(a, b, j, borrow) ==
    IF j > NumLimbs THEN <<>>
    ELSE LET t == a[j] - b[j] - borrow
         IN  IF t < 0 THEN <<t + Base>> \o NSubFrom(a, b, j + 1, 1)
                      ELSE <<t>> \o NSubFrom(a, b, j + 1, 0)

NSub(a, b) == NSubFrom(a, b, 1, 0)

RECURSIVE NLessFrom(_, _, _)
NLessFrom(a, b, j) ==
    IF j < 1 THEN FALSE
    ELSE IF a[j] # b[j] THEN a[j] < b[j]
    ELSE NLessFrom(a, b, j - 1)

NLess(a, b) == NLessFrom(a, b, NumLimbs)

RECURSIVE BitLen(_)
BitLen(n) == IF n = 0 THEN 0 ELSE 1 + BitLen(n \div 2)

\* index of the highest set bit (bit 0 is the lowest), -1 for zero
Msb(a) ==
    IF a = NZero THEN -1
    ELSE LET j == CHOOSE k \in 1..NumLimbs :
                      a[k] # 0 /\ \A m \in (k + 1)..NumLimbs : a[m] = 0
         IN  (j - 1) * LimbBits + BitLen(a[j]) - 1

Bit(a, i) == (a[(i \div LimbBits) + 1] \div 2^(i % LimbBits)) % 2

\* some bit below index k is set
LowNonzero(a, k) ==
    \E j \in 1..NumLimbs :
        IF k >= j * LimbBits THEN a[j] # 0
        ELSE IF k <= (j - 1) * LimbBits THEN FALSE
        ELSE a[j] % 2^(k - (j - 1) * LimbBits) # 0

\* a with the bits below index k cleared
ClearLow(a, k) ==
    [j \in 1..NumLimbs |->
        IF k >= j * LimbBits THEN 0
        ELSE IF k <= (j - 1) * LimbBits THEN a[j]
        ELSE a[j] - (a[j] % 2^(k - (j - 1) * LimbBits))]

Pow2N(k) ==
    [j \in 1..NumLimbs |-> IF j = (k \div LimbBits) + 1 THEN 2^(k % LimbBits) ELSE 0]

\* Round a magnitude (with `sticky` telling that a nonzero remainder lies below
\* its lowest bit) to MantBits significant bits, ties to even.
RoundNearestEven(a, sticky) ==
    LET p == Msb(a)
    IN  IF p < MantBits THEN a
        ELSE LET cut   == p - (MantBits - 1)
                 guard == Bit(a, cut - 1)
                 rest  == LowNonzero(a, cut - 1) \/ sticky
                 lsb   == Bit(a, cut)
                 t     == ClearLow(a, cut)
             IN  IF guard = 1 /\ (rest \/ lsb = 1) THEN NAdd(t, Pow2N(cut)) ELSE t

\* the limbs of the fraction r/d (r < d), most significant first, followed by
\* the remainder that is left
RECURSIVE FracDigits(_, _, _)
FracDigits(r, d, n) ==
    IF n = 0 THEN <<r>>
    ELSE <<(r * Base) \div d>> \o FracDigits((r * Base) % d, d, n - 1)

\* float(Fraction(n, d)) for naturals n, d > 0: n/d correctly rounded
FloatOfRatio(neg, n, d) ==
    LET fd  == FracDigits(n % d, d, FracLimbs)
        mag == [j \in 1..NumLimbs |->
                    IF j = NumLimbs THEN n \div d ELSE fd[FracLimbs + 1 - j]]
    IN  [neg |-> neg /\ n # 0,
         mag |-> RoundNearestEven(mag, fd[FracLimbs + 1] # 0)]

\* x + y
FAdd(x, y) ==
    IF x.neg = y.neg
    THEN [neg |-> x.neg, mag |-> RoundNearestEven(NAdd(x.mag, y.mag), FALSE)]
    ELSE IF x.mag = y.mag THEN [neg |-> FALSE, mag |-> NZero]
    ELSE IF NLess(x.mag, y.mag)
    THEN [neg |-> y.neg, mag |-> RoundNearestEven(NSub(y.mag, x.mag), FALSE)]
    ELSE [neg |-> x.neg, mag |-> RoundNearestEven(NSub(x.mag, y.mag), FALSE)]

\* x / 2 (exact: the magnitudes of the model keep their lowest bit clear)
FHalf(x) ==
    [neg |-> x.neg,
     mag |-> [j \in 1..NumLimbs |->
                 (x.mag[j] \div 2)
                 + (IF j < NumLimbs THEN (x.mag[j + 1] % 2) * (Base \div 2) ELSE 0)]]

\* x < 0
FNegative(x) == x.neg /\ x.mag # NZero

\* x >= 0
FNonNegative(x) == ~FNegative(x)

\* the literals 0.0 and 1.0
FZero == [neg |-> FALSE, mag |-> NZero]
FOne == FloatOfRatio(FALSE, 1, 1)

-----------------------------------------------------------------------------
(* fractions.Fraction(str), as parse_quantity_range calls it               *)

\* Invalid literal (ValueError) or zero denominator (ZeroDivisionError)
FractionError == [ok |-> FALSE, neg |-> FALSE, num |-> 0, den |-> 1, huge |-> FALSE]

\* what a call that raised OverflowError leaves in place of the float it
\* would return
OverflowError == [raised |-> "OverflowError"]

\* sys.float_info.max_10_exp: 10 ** (max_10_exp + 1) is beyond every float
max_10_exp == 308

\* the number of zeros of a power of ten
RECURSIVE Log10(_)
Log10(n) == IF n < 10 THEN 0 ELSE 1 + Log10(n \div 10)

\* 10 ** n
RECURSIVE Pow10(_)
Pow10(n) == IF n = 0 THEN 1 ELSE 10 * Pow10(n - 1)

\* the optional exponent and the end of the literal, from index p of r.  A
\* value of 10 ** (max_10_exp + 1) or more is not multiplied out: it is marked
\* `huge`, and float() of it raises OverflowError.
FractionExponent(r, p, neg, num, den) ==
    IF p > Len(r) THEN [ok |-> TRUE, neg |-> neg, num |-> num, den |-> den, huge |-> FALSE]
    ELSE IF LowerChar(r[p]) # "e" THEN FractionError
    ELSE LET signed == p + 1 <= Len(r) /\ r[p + 1] \in {"-", "+"}
             q      == IF signed THEN p + 2 ELSE p + 1
             k      == DigitRun(r, q)
             e      == IntOf(SubSeq(r, q, q + k - 1))
         IN  IF k = 0 \/ q + k <= Len(r) THEN FractionError
             ELSE IF num = 0
             THEN [ok |-> TRUE, neg |-> neg, num |-> 0, den |-> 1, huge |-> FALSE]
             ELSE IF signed /\ r[p + 1] = "-"
             THEN [ok |-> TRUE, neg |-> neg, num |-> num, den |-> den * Pow10(e), huge |-> FALSE]
             ELSE IF e - Log10(den) > max_10_exp
             THEN [ok |-> TRUE, neg |-> neg, num |-> num, den |-> den, huge |-> TRUE]
             ELSE [ok |-> TRUE, neg |-> neg, num |-> num * Pow10(e), den |-> den, huge |-> FALSE]

\* Fraction(s): sign, numerator, then "/denominator" or ".decimal" "E exponent"
Fraction(s) ==
    LET t      == strip(s)
        signed == t # <<>> /\ Head(t) \in {"-", "+"}
        neg    == signed /\ Head(t) = "-"
        r      == IF signed THEN Tail(t) ELSE t
        k      == DigitRun(r, 1)
        num    == IntOf(SubSeq(r, 1, k))
        p      == k + 1
    IN  IF ~(k >= 1 \/ (Len(r) >= 2 /\ r[1] = "." /\ IsDigit(r[2])))
        THEN FractionError
        ELSE IF p > Len(r)
        THEN [ok |-> TRUE, neg |-> neg, num |-> num, den |-> 1, huge |-> FALSE]
        ELSE IF r[p] = "/"
        THEN LET m == DigitRun(r, p + 1)
                 d == IntOf(SubSeq(r, p + 1, p + m))
             IN  IF m = 0 \/ p + m < Len(r) \/ d = 0 THEN FractionError
                 ELSE [ok |-> TRUE, neg |-> neg, num |-> num, den |-> d, huge |-> FALSE]
        ELSE IF r[p] = "."
        THEN LET m     == DigitRun(r, p + 1)
                 scale == Pow10(m)
                 dec   == IntOf(SubSeq(r, p + 1, p + m))
             IN  FractionExponent(r, p + m + 1, neg, num * scale + dec, scale)
        ELSE FractionExponent(r, p, neg, num, 1)

\* float(Fraction(...)): the quotient correctly rounded, OverflowError when
\* it is too large for a float
float(f) == IF f.huge THEN OverflowError ELSE FloatOfRatio(f.neg, f.num, f.den)

-----------------------------------------------------------------------------
(* parse_quantity_range                                                    *)

\* re.split(r"\s+to\s+", s)
RECURSIVE re_split_to(_)
re_split_to(s) ==
    LET Hit(i) == /\ SpaceRun(s, i) >= 1
                  /\ MatchAt(s, i + SpaceRun(s, i), <<"t", "o">>)
                  /\ SpaceRun(s, i + SpaceRun(s, i) + 2) >= 1
    IN  IF \E i \in 1..Len(s) : Hit(i)
        THEN LET i == CHOOSE j \in 1..Len(s) : Hit(j) /\ \A k \in 1..(j - 1) : ~Hit(k)
                 e == i + SpaceRun(s, i) + 2
             IN  <<SubSeq(s, 1, i - 1)>> \o re_split_to(From(s, e + SpaceRun(s, e)))
        ELSE <<s>>

\* RangeMidpoint without the division by 2
RangeMidpoint_NoHalving(parts) ==
    LET low  == Fraction(strip(parts[1]))
        high == Fraction(strip(parts[2]))
    IN  IF ~low.ok THEN FOne
        ELSE IF low.huge THEN OverflowError
        ELSE IF ~high.ok THEN FOne
        ELSE IF high.huge THEN OverflowError
        ELSE FAdd(float(low), float(high))

\* the try block of a two-part range: (low + high) / 2, or 1.0 when an
\* operand raises ValueError or ZeroDivisionError; the OverflowError of
\* float() is not caught.  low is evaluated first.
RangeMidpoint(parts) ==
    LET low  == Fraction(strip(parts[1]))
        high == Fraction(strip(parts[2]))
    IN  IF ~low.ok THEN FOne
        ELSE IF low.huge THEN OverflowError
        ELSE IF ~high.ok THEN FOne
        ELSE IF high.huge THEN OverflowError
        ELSE FHalf(FAdd(float(low), float(high)))

parse_quantity_range(quantity_str) ==
    LET s      == strip(quantity_str)
        has_to == Contains(lower(s), <<"t", "o">>)
        hyphen == split_on(s, "-")
        to     == re_split_to(lower(s))
        whole  == Fraction(s)
    IN  IF Contains(s, <<"-">>) /\ ~has_to /\ Len(hyphen) = 2
        THEN RangeMidpoint(hyphen)
        ELSE IF has_to /\ Len(to) = 2
        THEN RangeMidpoint(to)
        ELSE IF whole.ok THEN float(whole) ELSE FOne

-----------------------------------------------------------------------------
(* clean_ingredient_name                                                   *)

\* re.sub(r"\([^)]*\)", "", name): every "(" up to the next ")" is removed
RECURSIVE sub_parenthetical(_)
sub_parenthetical(s) ==
    LET Open(i) == s[i] = "(" /\ \E j \in (i + 1)..Len(s) : s[j] = ")"
    IN  IF \E i \in 1..Len(s) : Open(i)
        THEN LET i == CHOOSE k \in 1..Len(s) : Open(k) /\ \A m \in 1..(k - 1) : ~Open(m)
                 j == CHOOSE k \in (i + 1)..Len(s) :
                          s[k] = ")" /\ \A m \in (i + 1)..(k - 1) : s[m] # ")"
             IN  SubSeq(s, 1, i - 1) \o sub_parenthetical(From(s, j + 1))
        ELSE s

\* the alternatives of the descriptor pattern (case-sensitive)
Descriptors ==
    { <<"d", "i", "c", "e", "d">>, <<"c", "h", "o", "p", "p", "e", "d">>, <<"s", "l", "i", "c", "e", "d">>, <<"m", "i", "n", "c", "e", "d">>, <<"h", "a", "l", "v", "e", "d">>,
      <<"t", "h", "i", "n", "l", "y", " ", "s", "l", "i", "c", "e", "d">>, <<"o", "p", "t", "i", "o", "n", "a", "l">>, <<"f", "o", "r", " ", "s", "e", "r", "v", "i", "n", "g">>, <<"d", "r", "a", "i", "n", "e", "d", " ", "a", "n", "d", " ", "r", "i", "n", "s", "e", "d">> }

\* s cut before the first of the indices `hits` where the pattern matches
\* (s itself when there is none): re.sub of a pattern ending in ".*$" or ".+$"
CutAtFirst(s, hits) ==
    IF hits # {}
    THEN LET i == CHOOSE k \in hits : \A m \in hits : k <= m
         IN  SubSeq(s, 1, i - 1)
    ELSE s

\* re.sub(r",\s*(diced|...|drained and rinsed).*$", "", name)
sub_descriptor(s) ==
    LET Hit(i) == /\ s[i] = ","
                  /\ \E d \in Descriptors : MatchAt(s, i + 1 + SpaceRun(s, i + 1), d)
    IN  CutAtFirst(s, {i \in 1..Len(s) : Hit(i)})

\* re.sub(r"\s+to taste.*$", "", name, flags=re.IGNORECASE)
sub_to_taste(s) ==
    LET Hit(i) == /\ SpaceRun(s, i) >= 1
                  /\ MatchAtI(s, i + SpaceRun(s, i), <<"t", "o", " ", "t", "a", "s", "t", "e">>)
    IN  CutAtFirst(s, {i \in 1..Len(s) : Hit(i)})

\* re.sub(r"\s+and\s+.+$", "", name)
sub_and_suffix(s) ==
    LET Hit(i) == /\ SpaceRun(s, i) >= 1
                  /\ MatchAt(s, i + SpaceRun(s, i), <<"a", "n", "d">>)
                  /\ SpaceRun(s, i + SpaceRun(s, i) + 3) >= 1
                  /\ Len(s) >= i + SpaceRun(s, i) + 3 + 1
    IN  CutAtFirst(s, {i \in 1..Len(s) : Hit(i)})

\* re.match(r"juice of \d+\s+(.+)", name, flags=re.IGNORECASE): group 1, or
\* None.  When only whitespace follows the digits, \s+ gives its last
\* character back to (.+).
juice_match(s) ==
    LET d == DigitRun(s, 10)
        w == SpaceRun(s, 10 + d)
    IN  IF ~(MatchAtI(s, 1, <<"j", "u", "i", "c", "e", " ", "o", "f", " ">>) /\ d >= 1 /\ w >= 1) THEN None
        ELSE IF 10 + d + w <= Len(s) THEN From(s, 10 + d + w)
        ELSE IF w >= 2 THEN From(s, Len(s))
        ELSE None

\* the alternatives of the leading-qualifier pattern (re.IGNORECASE)
Qualifiers ==
    { <<"f", "r", "e", "s", "h">>, <<"d", "r", "i", "e", "d">>, <<"f", "r", "o", "z", "e", "n">>, <<"c", "a", "n", "n", "e", "d">>, <<"s", "h", "r", "e", "d", "d", "e", "d">>,
      <<"c", "h", "o", "p", "p", "e", "d">>, <<"s", "l", "i", "c", "e", "d">>, <<"d", "i", "c", "e", "d">>, <<"m", "i", "n", "c", "e", "d">> }

\* re.sub(r"^(fresh|...|minced)\s+", "", name, flags=re.IGNORECASE)
sub_qualifier(s) ==
    LET Hit(q) == MatchAtI(s, 1, q) /\ SpaceRun(s, Len(q) + 1) >= 1
    IN  IF \E q \in Qualifiers : Hit(q)
        THEN LET q == CHOOSE x \in Qualifiers : Hit(x)
             IN  From(s, Len(q) + 1 + SpaceRun(s, Len(q) + 1))
        ELSE s

clean_ingredient_name(name) ==
    LET n4 == sub_and_suffix(sub_to_taste(sub_descriptor(sub_parenthetical(name))))
        g1 == juice_match(n4)
    IN  IF g1 # None
        THEN g1 \o <<" ", "j", "u", "i", "c", "e">>
        ELSE strip(join(split(sub_qualifier(n4))))

-----------------------------------------------------------------------------
(* normalize_unit                                                          *)

normalize_unit(unit) ==
    LET unit_lower == lower(unit)
    IN  IF unit_lower \in {<<"t", "b", "s", "p">>, <<"t", "b", "s">>, <<"t", "b">>, <<"t", "a", "b", "l", "e", "s", "p", "o", "o", "n">>, <<"t", "a", "b", "l", "e", "s", "p", "o", "o", "n", "s">>}
        THEN <<"t", "a", "b", "l", "e", "s", "p", "o", "o", "n">>
        ELSE IF unit_lower \in {<<"t", "s", "p">>, <<"t", "s">>, <<"t", "e", "a", "s", "p", "o", "o", "n">>, <<"t", "e", "a", "s", "p", "o", "o", "n", "s">>}
        THEN <<"t", "e", "a", "s", "p", "o", "o", "n">>
        ELSE IF unit_lower \in {<<"c">>, <<"c", "u", "p">>, <<"c", "u", "p", "s">>}
        THEN <<"c", "u", "p">>
        ELSE IF unit_lower \in {<<"o", "z">>, <<"o", "u", "n", "c", "e">>, <<"o", "u", "n", "c", "e", "s">>}
        THEN <<"o", "u", "n", "c", "e">>
        ELSE IF unit_lower \in {<<"l", "b">>, <<"l", "b", "s">>, <<"p", "o", "u", "n", "d">>, <<"p", "o", "u", "n", "d", "s">>}
        THEN <<"p", "o", "u", "n", "d">>
        ELSE IF unit_lower \in {<<"g">>, <<"g", "r", "a", "m">>, <<"g", "r", "a", "m", "s">>}
        THEN <<"g", "r", "a", "m">>
        ELSE IF unit_lower \in {<<"c", "a", "n">>, <<"c", "a", "n", "s">>}
        THEN <<"c", "a", "n">>
        ELSE IF unit_lower \in {<<"l", "a", "r", "g", "e">>, <<"m", "e", "d", "i", "u", "m">>, <<"s", "m", "a", "l", "l">>, <<"w", "h", "o", "l", "e">>, <<"c", "o", "u", "n", "t">>}
        THEN <<>>
        ELSE unit_lower

-----------------------------------------------------------------------------
(* parse_ingredient_line                                                   *)

\* the unit vocabulary of the line parser
common_units ==
    { <<"t", "b", "s", "p">>, <<"t", "b", "s">>, <<"t", "b">>, <<"t", "s", "p">>, <<"t", "s">>,
      <<"c", "u", "p">>, <<"c", "u", "p", "s">>, <<"c">>,
      <<"o", "z">>, <<"o", "u", "n", "c", "e">>, <<"o", "u", "n", "c", "e", "s">>,
      <<"l", "b">>, <<"l", "b", "s">>, <<"p", "o", "u", "n", "d">>, <<"p", "o", "u", "n", "d", "s">>,
      <<"g">>, <<"g", "r", "a", "m">>, <<"g", "r", "a", "m", "s">>, <<"k", "g">>, <<"m", "l">>, <<"l">>,
      <<"c", "a", "n">>, <<"c", "a", "n", "s">>, <<"j", "a", "r">>, <<"j", "a", "r", "s">>,
      <<"p", "a", "c", "k", "a", "g", "e">>, <<"p", "a", "c", "k", "a", "g", "e", "s">>, <<"b", "o", "x">>, <<"b", "o", "x", "e", "s">>,
      <<"l", "a", "r", "g", "e">>, <<"m", "e", "d", "i", "u", "m">>, <<"s", "m", "a", "l", "l">>, <<"w", "h", "o", "l", "e">>,
      <<"t", "a", "b", "l", "e", "s", "p", "o", "o", "n">>, <<"t", "a", "b", "l", "e", "s", "p", "o", "o", "n", "s">>, <<"t", "e", "a", "s", "p", "o", "o", "n">>, <<"t", "e", "a", "s", "p", "o", "o", "n", "s">>,
      <<"c", "l", "o", "v", "e">>, <<"c", "l", "o", "v", "e", "s">>, <<"c", "o", "u", "n", "t">> }

\* the bullet characters of the model's alphabet that the class [-...*] holds
BulletChars == {"-", "*"}

\* re.sub(r"^[-...*]\s*", "", line.strip())
strip_bullet(line) ==
    LET s == strip(line)
    IN  IF s # <<>> /\ Head(s) \in BulletChars
        THEN From(s, 2 + SpaceRun(s, 2))
        ELSE s

\* [\d./\-]
IsQuantityChar(c) == IsDigit(c) \/ c \in {".", "/", "-"}

RECURSIVE QuantityRun(_, _)
QuantityRun(s, i) ==
    IF i <= Len(s) /\ IsQuantityChar(s[i]) THEN 1 + QuantityRun(s, i + 1) ELSE 0

RECURSIVE TokenRun(_, _)
TokenRun(s, i) ==
    IF i <= Len(s) /\ ~IsSpace(s[i]) THEN 1 + TokenRun(s, i + 1) ELSE 0

\* \s+(\S+)\s+(.+)$ from index p of s: groups 2 and 3, or None.  (s carries no
\* trailing whitespace, so (.+) is what follows the second run of whitespace.)
match_unit_and_name(s, p) ==
    LET w1 == SpaceRun(s, p)
        t  == TokenRun(s, p + w1)
        w2 == SpaceRun(s, p + w1 + t)
        q  == p + w1 + t + w2
    IN  IF w1 >= 1 /\ t >= 1 /\ w2 >= 1 /\ q <= Len(s)
        THEN <<SubSeq(s, p + w1, p + w1 + t - 1), From(s, q)>>
        ELSE None

\* the end of group 1 when it takes the optional "\s+to\s+[\d./\-]+" part
\* (0 when that part does not match)
quantity_with_to_end(s) ==
    LET n1 == QuantityRun(s, 1)
        w1 == SpaceRun(s, n1 + 1)
        a  == n1 + 1 + w1
        w2 == SpaceRun(s, a + 2)
        n2 == QuantityRun(s, a + 2 + w2)
    IN  IF n1 >= 1 /\ w1 >= 1 /\ MatchAt(s, a, <<"t", "o">>) /\ w2 >= 1 /\ n2 >= 1
        THEN a + 2 + w2 + n2 - 1
        ELSE 0

\* re.match(pattern_with_unit, line): <<group 1, group 2, group 3>>, or None.
\* The optional range part is tried first and given up when the rest of the
\* pattern then fails.
match_pattern_with_unit(s) ==
    LET n1 == QuantityRun(s, 1)
        e  == quantity_with_to_end(s)
    IN  IF e > 0 /\ match_unit_and_name(s, e + 1) # None
        THEN <<SubSeq(s, 1, e)>> \o match_unit_and_name(s, e + 1)
        ELSE IF n1 >= 1 /\ match_unit_and_name(s, n1 + 1) # None
        THEN <<SubSeq(s, 1, n1)>> \o match_unit_and_name(s, n1 + 1)
        ELSE None

parse_ingredient_line(text) ==
    LET line == strip_bullet(text)
        m    == match_pattern_with_unit(line)
    IN  IF line = <<>> \/ startswith(line, <<"#">>) THEN None
        ELSE IF m # None
        THEN LET quantity       == strip(m[1])
                 potential_unit == strip(m[2])
                 potential_name == strip(m[3])
             IN  IF lower(potential_unit) \in common_units
                 THEN <<quantity, potential_unit, clean_ingredient_name(potential_name)>>
                 ELSE <<quantity, <<>>,
                        clean_ingredient_name(potential_unit \o <<" ">> \o potential_name)>>
        ELSE <<<<"1">>, <<>>, clean_ingredient_name(line)>>

-----------------------------------------------------------------------------
(* merge_ingredients                                                       *)
(*                                                                         *)
(* The dict of dicts is kept with its insertion order: a sequence of       *)
(* entries [name, units], units a sequence of [unit, quantity].            *)

\* index of key k in the sequence `keys` of a dict's keys (0: not a key)
IndexOf(keys, k) ==
    IF \E i \in 1..Len(keys) : keys[i] = k
    THEN CHOOSE i \in 1..Len(keys) : keys[i] = k
    ELSE 0

\* the keys of the outer dict (names) and of one inner dict (units)
NameKeys(merged) == [n \in 1..Len(merged) |-> merged[n].name]
UnitKeys(units) == [n \in 1..Len(units) |-> units[n].unit]

\* add_quantity with the quantity assigned (=) where the code adds (+=)
add_quantity_overwrite(merged, name_clean, unit_norm, quantity) ==
    LET with_name == IF IndexOf(NameKeys(merged), name_clean) = 0
                     THEN Append(merged, [name |-> name_clean, units |-> <<>>])
                     ELSE merged
        i         == IndexOf(NameKeys(with_name), name_clean)
        units     == with_name[i].units
        with_unit == IF IndexOf(UnitKeys(units), unit_norm) = 0
                     THEN Append(units, [unit |-> unit_norm, quantity |-> FZero])
                     ELSE units
        j         == IndexOf(UnitKeys(with_unit), unit_norm)
    IN  IF quantity = OverflowError THEN <<OverflowError>>
        ELSE [with_name EXCEPT ![i].units = [with_unit EXCEPT ![j].quantity = quantity]]

\* the entry of (name_clean, unit_norm) is made if it is not there and grows
\* by quantity; when parse_quantity_range raised, the exception stands in
\* place of the entries
add_quantity(merged, name_clean, unit_norm, quantity) ==
    LET with_name == IF IndexOf(NameKeys(merged), name_clean) = 0
                     THEN Append(merged, [name |-> name_clean, units |-> <<>>])
                     ELSE merged
        i         == IndexOf(NameKeys(with_name), name_clean)
        units     == with_name[i].units
        with_unit == IF IndexOf(UnitKeys(units), unit_norm) = 0
                     THEN Append(units, [unit |-> unit_norm, quantity |-> FZero])
                     ELSE units
        j         == IndexOf(UnitKeys(with_unit), unit_norm)
    IN  IF quantity = OverflowError THEN <<OverflowError>>
        ELSE [with_name EXCEPT ![i].units = [with_unit EXCEPT ![j].quantity = FAdd(@, quantity)]]

\* merge_one with the unit as written, not normalized
merge_one_unit_as_written(merged, ingredient) ==
    add_quantity(merged, join(split(lower(ingredient[3]))), ingredient[2],
                 parse_quantity_range(ingredient[1]))

\* one iteration of the loop of merge_ingredients
merge_one(merged, ingredient) ==
    add_quantity(merged, join(split(lower(ingredient[3]))), normalize_unit(ingredient[2]),
                 parse_quantity_range(ingredient[1]))

RECURSIVE merge_from(_, _, _)
merge_from(merged, all_ingredients, k) ==
    IF k > Len(all_ingredients) \/ merged = <<OverflowError>> THEN merged
    ELSE merge_from(merge_one(merged, all_ingredients[k]), all_ingredients, k + 1)

merge_ingredients(all_ingredients) == merge_from(<<>>, all_ingredients, 1)

-----------------------------------------------------------------------------
(* categorize_ingredient                                                   *)

CATEGORY_KEYWORDS ==
    [ Produce |->
        <<<<"l", "e", "t", "t", "u", "c", "e">>,
          <<"s", "p", "i", "n", "a", "c", "h">>,
          <<"a", "r", "u", "g", "u", "l", "a">>,
          <<"g", "r", "e", "e", "n", "s">>,
          <<"s", "a", "l", "a", "d">>,
          <<"t", "o", "m", "a", "t", "o">>,
          <<"c", "u", "c", "u", "m", "b", "e", "r">>,
          <<"o", "n", "i", "o", "n">>,
          <<"g", "a", "r", "l", "i", "c">>,
          <<"b", "e", "l", "l", " ", "p", "e", "p", "p", "e", "r">>,
          <<"c", "a", "r", "r", "o", "t">>,
          <<"c", "e", "l", "e", "r", "y">>,
          <<"b", "r", "o", "c", "c", "o", "l", "i">>,
          <<"c", "a", "u", "l", "i", "f", "l", "o", "w", "e", "r">>,
          <<"c", "a", "b", "b", "a", "g", "e">>,
          <<"p", "o", "t", "a", "t", "o">>,
          <<"s", "w", "e", "e", "t", " ", "p", "o", "t", "a", "t", "o">>,
          <<"a", "v", "o", "c", "a", "d", "o">>,
          <<"l", "i", "m", "e">>,
          <<"l", "e", "m", "o", "n">>,
          <<"a", "p", "p", "l", "e">>,
          <<"b", "a", "n", "a", "n", "a">>,
          <<"b", "e", "r", "r", "y">>,
          <<"b", "e", "r", "r", "i", "e", "s">>,
          <<"f", "r", "u", "i", "t">>,
          <<"c", "i", "l", "a", "n", "t", "r", "o">>,
          <<"p", "a", "r", "s", "l", "e", "y">>,
          <<"b", "a", "s", "i", "l">>,
          <<"h", "e", "r", "b">>,
          <<"k", "a", "l", "e">>,
          <<"z", "u", "c", "c", "h", "i", "n", "i">>,
          <<"s", "q", "u", "a", "s", "h">>,
          <<"m", "u", "s", "h", "r", "o", "o", "m">>,
          <<"p", "e", "a">>>>,
      Meat |->
        <<<<"c", "h", "i", "c", "k", "e", "n">>,
          <<"b", "e", "e", "f">>,
          <<"p", "o", "r", "k">>,
          <<"t", "u", "r", "k", "e", "y">>,
          <<"s", "a", "u", "s", "a", "g", "e">>,
          <<"b", "a", "c", "o", "n">>,
          <<"h", "a", "m">>,
          <<"l", "a", "m", "b">>,
          <<"s", "t", "e", "a", "k">>,
          <<"g", "r", "o", "u", "n", "d", " ", "b", "e", "e", "f">>,
          <<"f", "i", "s", "h">>,
          <<"s", "a", "l", "m", "o", "n">>,
          <<"t", "u", "n", "a">>,
          <<"t", "i", "l", "a", "p", "i", "a">>,
          <<"c", "o", "d">>,
          <<"m", "a", "h", "i", "-", "m", "a", "h", "i">>,
          <<"s", "h", "r", "i", "m", "p">>,
          <<"s", "e", "a", "f", "o", "o", "d">>>>,
      Dairy |->
        <<<<"m", "i", "l", "k">>,
          <<"c", "r", "e", "a", "m">>,
          <<"c", "h", "e", "e", "s", "e">>,
          <<"c", "h", "e", "d", "d", "a", "r">>,
          <<"m", "o", "z", "z", "a", "r", "e", "l", "l", "a">>,
          <<"p", "a", "r", "m", "e", "s", "a", "n">>,
          <<"f", "e", "t", "a">>,
          <<"y", "o", "g", "u", "r", "t">>,
          <<"b", "u", "t", "t", "e", "r">>,
          <<"e", "g", "g">>,
          <<"s", "o", "u", "r", " ", "c", "r", "e", "a", "m">>,
          <<"c", "o", "t", "t", "a", "g", "e", " ", "c", "h", "e", "e", "s", "e">>>>,
      Pantry |->
        <<<<"o", "i", "l">>,
          <<"o", "l", "i", "v", "e", " ", "o", "i", "l">>,
          <<"v", "e", "g", "e", "t", "a", "b", "l", "e", " ", "o", "i", "l">>,
          <<"v", "i", "n", "e", "g", "a", "r">>,
          <<"f", "l", "o", "u", "r">>,
          <<"s", "u", "g", "a", "r">>,
          <<"s", "a", "l", "t">>,
          <<"b", "l", "a", "c", "k", " ", "p", "e", "p", "p", "e", "r">>,
          <<"w", "h", "i", "t", "e", " ", "p", "e", "p", "p", "e", "r">>,
          <<"c", "a", "y", "e", "n", "n", "e", " ", "p", "e", "p", "p", "e", "r">>,
          <<"r", "e", "d", " ", "p", "e", "p", "p", "e", "r", " ", "f", "l", "a", "k", "e", "s">>,
          <<"s", "p", "i", "c", "e">>,
          <<"s", "e", "a", "s", "o", "n", "i", "n", "g">>,
          <<"r", "i", "c", "e">>,
          <<"p", "a", "s", "t", "a">>,
          <<"q", "u", "i", "n", "o", "a">>,
          <<"o", "a", "t", "s">>,
          <<"c", "e", "r", "e", "a", "l">>,
          <<"c", "a", "n">>,
          <<"c", "a", "n", "n", "e", "d">>,
          <<"b", "e", "a", "n", "s">>,
          <<"b", "l", "a", "c", "k", " ", "b", "e", "a", "n", "s">>,
          <<"c", "h", "i", "c", "k", "p", "e", "a", "s">>,
          <<"s", "t", "o", "c", "k">>,
          <<"b", "r", "o", "t", "h">>,
          <<"s", "a", "u", "c", "e">>,
          <<"s", "a", "l", "s", "a">>,
          <<"h", "o", "t", " ", "s", "a", "u", "c", "e">>,
          <<"h", "o", "n", "e", "y">>,
          <<"m", "a", "p", "l", "e", " ", "s", "y", "r", "u", "p">>,
          <<"p", "e", "a", "n", "u", "t", " ", "b", "u", "t", "t", "e", "r">>,
          <<"c", "u", "m", "i", "n">>,
          <<"p", "a", "p", "r", "i", "k", "a">>,
          <<"c", "h", "i", "l", "i", " ", "p", "o", "w", "d", "e", "r">>,
          <<"g", "a", "r", "l", "i", "c", " ", "p", "o", "w", "d", "e", "r">>,
          <<"m", "u", "s", "t", "a", "r", "d">>,
          <<"k", "e", "t", "c", "h", "u", "p">>,
          <<"m", "a", "y", "o">>,
          <<"m", "a", "y", "o", "n", "n", "a", "i", "s", "e">>,
          <<"s", "o", "y", " ", "s", "a", "u", "c", "e">>,
          <<"b", "a", "l", "s", "a", "m", "i", "c">>,
          <<"d", "i", "j", "o", "n">>>>,
      Frozen |->
        <<<<"f", "r", "o", "z", "e", "n">>,
          <<"i", "c", "e", " ", "c", "r", "e", "a", "m">>,
          <<"f", "r", "o", "z", "e", "n", " ", "v", "e", "g", "e", "t", "a", "b", "l", "e", "s">>,
          <<"f", "r", "o", "z", "e", "n", " ", "f", "r", "u", "i", "t">>,
          <<"p", "o", "p", "s", "i", "c", "l", "e">>>>,
      Bakery |->
        <<<<"b", "r", "e", "a", "d">>,
          <<"t", "o", "r", "t", "i", "l", "l", "a">>,
          <<"t", "o", "r", "t", "i", "l", "l", "a", "s">>,
          <<"b", "a", "g", "e", "l">>,
          <<"m", "u", "f", "f", "i", "n">>,
          <<"r", "o", "l", "l">>,
          <<"b", "u", "n">>,
          <<"p", "i", "t", "a">>,
          <<"n", "a", "a", "n">>>> ]

\* the order the docstring of categorize_ingredient lists
priority_order_docstring == <<"Bakery", "Meat", "Dairy", "Pantry", "Frozen", "Produce">>

\* the order in which categorize_ingredient tries the categories
priority_order == <<"Bakery", "Meat", "Dairy", "Frozen", "Pantry", "Produce">>

\* `keyword in ingredient_lower` for some keyword of the category
category_matches(category, ingredient_lower) ==
    \E k \in 1..Len(CATEGORY_KEYWORDS[category]) :
        Contains(ingredient_lower, CATEGORY_KEYWORDS[category][k])

categorize_ingredient(ingredient_name) ==
    LET ingredient_lower == lower(ingredient_name)
        Hit(i) == /\ priority_order[i] \in DOMAIN CATEGORY_KEYWORDS
                  /\ category_matches(priority_order[i], ingredient_lower)
    IN  IF \E i \in 1..Len(priority_order) : Hit(i)
        THEN priority_order[CHOOSE i \in 1..Len(priority_order) :
                                Hit(i) /\ \A m \in 1..(i - 1) : ~Hit(m)]
        ELSE "Other"

-----------------------------------------------------------------------------
(* load_recipe_ingredients                                                 *)
(*                                                                         *)
(* What is at a recipe path is a record: kind "missing" (nothing there),   *)
(* "directory" (the path exists and open() raises IsADirectoryError) or    *)
(* "file", with the lines of the file.  The result is a record: the        *)
(* exception raised ("" for none) and the list returned.                   *)

Returned(value) == [raised |-> "", value |-> value]
Raised(exception) == [raised |-> exception, value |-> <<>>]

\* load_from that leaves the section at the closing header and reads on
RECURSIVE load_from_reads_on(_, _, _, _)
load_from_reads_on(lines, k, in_ingredients_section, ingredients) ==
    IF k > Len(lines) THEN ingredients
    ELSE LET line == strip(lines[k])
         IN  IF startswith(line, <<"#", "#", " ", "I", "n", "g", "r", "e", "d", "i", "e", "n", "t", "s">>)
             THEN load_from_reads_on(lines, k + 1, TRUE, ingredients)
             ELSE IF /\ in_ingredients_section
                     /\ startswith(line, <<"#", "#", " ">>)
                     /\ ~Contains(line, <<"I", "n", "g", "r", "e", "d", "i", "e", "n", "t", "s">>)
             THEN load_from_reads_on(lines, k + 1, FALSE, ingredients)
             ELSE IF /\ in_ingredients_section
                     /\ ~startswith(line, <<"#", "#", "#">>)
                     /\ (startswith(line, <<"-">>) \/ startswith(line, <<"*">>))
                     /\ parse_ingredient_line(line) # None
             THEN load_from_reads_on(lines, k + 1, in_ingredients_section,
                                     Append(ingredients, parse_ingredient_line(line)))
             ELSE load_from_reads_on(lines, k + 1, in_ingredients_section, ingredients)

\* the loop over the lines of the file, from line k on
RECURSIVE load_from(_, _, _, _)
load_from(lines, k, in_ingredients_section, ingredients) ==
    IF k > Len(lines) THEN ingredients
    ELSE LET line == strip(lines[k])
         IN  IF startswith(line, <<"#", "#", " ", "I", "n", "g", "r", "e", "d", "i", "e", "n", "t", "s">>)
             THEN load_from(lines, k + 1, TRUE, ingredients)
             ELSE IF /\ in_ingredients_section
                     /\ startswith(line, <<"#", "#", " ">>)
                     /\ ~Contains(line, <<"I", "n", "g", "r", "e", "d", "i", "e", "n", "t", "s">>)
             THEN ingredients
             ELSE IF in_ingredients_section /\ startswith(line, <<"#", "#", "#">>)
             THEN load_from(lines, k + 1, in_ingredients_section, ingredients)
             ELSE IF /\ in_ingredients_section
                     /\ (startswith(line, <<"-">>) \/ startswith(line, <<"*">>))
                     /\ parse_ingredient_line(line) # None
             THEN load_from(lines, k + 1, in_ingredients_section,
                            Append(ingredients, parse_ingredient_line(line)))
             ELSE load_from(lines, k + 1, in_ingredients_section, ingredients)

load_recipe_ingredients(recipe) ==
    IF recipe.kind = "missing" THEN Raised("FileNotFoundError")
    ELSE IF recipe.kind = "directory" THEN Raised("IsADirectoryError")
    ELSE Returned(load_from(recipe.lines, 1, FALSE, <<>>))

-----------------------------------------------------------------------------
(* format_quantity                                                         *)
(*                                                                         *)
(* The float is taken as the exact ratio mag / 2^FracBits, as              *)
(* Fraction(quantity) takes it; the products below keep whatever exceeds   *)
(* LimbBits bits in the highest limb.                                      *)

\* a * m for a small natural m
RECURSIVE NMulFrom(_, _, _, _)
NMulFrom(a, m, j, carry) ==
    IF j > NumLimbs THEN <<>>
    ELSE LET t == a[j] * m + carry
         IN  IF j = NumLimbs THEN <<t>>
             ELSE <<t % Base>> \o NMulFrom(a, m, j + 1, t \div Base)

NMul(a, m) == NMulFrom(a, m, 1, 0)

\* the natural number k as a magnitude
NInt(k) == [j \in 1..NumLimbs |-> IF j = NumLimbs THEN k ELSE 0]

\* |a - b|
NAbsDiff(a, b) == IF NLess(a, b) THEN NSub(b, a) ELSE NSub(a, b)

\* the fractional part of a magnitude
NFrac(a) == [a EXCEPT ![NumLimbs] = 0]

\* min(n // d, cap), and n - a * d
RECURSIVE NQuot(_, _, _)
NQuot(n, d, cap) ==
    IF cap = 0 \/ NLess(n, d) THEN 0 ELSE 1 + NQuot(NSub(n, d), d, cap - 1)

RECURSIVE NRem(_, _, _)
NRem(n, d, a) == IF a = 0 THEN n ELSE NRem(NSub(n, d), d, a - 1)

RECURSIVE Gcd(_, _)
Gcd(a, b) == IF b = 0 THEN a ELSE Gcd(b, a % b)

Abs(n) == IF n < 0 THEN -n ELSE n

\* Fraction(numerator, denominator) for a denominator > 0: lowest terms
FractionOf(numerator, denominator) ==
    LET g == Gcd(Abs(numerator), denominator)
    IN  [num |-> numerator \div g, den |-> denominator \div g]

\* str(n) for an integer n
RECURSIVE NatToStr(_)
NatToStr(n) ==
    IF n < 10 THEN <<DigitChars[n + 1]>>
    ELSE NatToStr(n \div 10) \o <<DigitChars[(n % 10) + 1]>>

IntToStr(n) == IF n < 0 THEN <<"-">> \o NatToStr(-n) ELSE NatToStr(n)

\* quantity == int(quantity)
IsWhole(x) == NFrac(x.mag) = NZero

\* int(quantity): truncation toward zero
int(x) == IF x.neg THEN -x.mag[NumLimbs] ELSE x.mag[NumLimbs]

\* the argument of limit_denominator in format_quantity
max_denominator == 16

\* |p/q - x| * q * 2^FracBits
Distance(x, p, q) ==
    IF p = 0 \/ (p < 0) = x.neg
    THEN NAbsDiff(NMul(NInt(1), Abs(p)), NMul(x.mag, q))
    ELSE NAdd(NMul(NInt(1), Abs(p)), NMul(x.mag, q))

\* the while loop of limit_denominator after its first pass; n and d are
\* magnitudes.  a is n // d counted up to max_denominator + 1 only: q1 >= 1
\* here, so that any larger a leaves the loop as well.
RECURSIVE limit_loop(_, _, _, _, _, _, _)
limit_loop(x, p0, q0, p1, q1, n, d) ==
    LET a  == NQuot(n, d, max_denominator + 1)
        q2 == q0 + a * q1
    IN  IF q2 > max_denominator
        THEN LET k      == (max_denominator - q0) \div q1
                 bound1 == FractionOf(p0 + k * p1, q0 + k * q1)
                 bound2 == FractionOf(p1, q1)
                 d1     == NMul(Distance(x, bound1.num, bound1.den), bound2.den)
                 d2     == NMul(Distance(x, bound2.num, bound2.den), bound1.den)
             IN  IF ~NLess(d1, d2) THEN bound2 ELSE bound1
        ELSE limit_loop(x, p1, q1, p0 + a * p1, q2, d, NRem(n, d, a))

\* Fraction(quantity).limit_denominator(max_denominator).  A float whose
\* denominator is at most max_denominator is a whole number of sixteenths and
\* is returned in lowest terms.  Otherwise the first pass of the loop has
\* a = floor(quantity), q2 = 1, and leaves n, d = denominator, remainder.
limit_denominator(x) ==
    LET sixteenth  == Base \div max_denominator
        sixteenths == x.mag[NumLimbs] * max_denominator + (x.mag[FracLimbs] \div sixteenth)
        exact      == /\ \A j \in 1..(FracLimbs - 1) : x.mag[j] = 0
                      /\ x.mag[FracLimbs] % sixteenth = 0
        floor      == IF x.neg THEN -(x.mag[NumLimbs] + 1) ELSE x.mag[NumLimbs]
        remainder  == IF x.neg THEN NSub(NInt(1), NFrac(x.mag)) ELSE NFrac(x.mag)
    IN  IF exact
        THEN FractionOf(IF x.neg THEN -sixteenths ELSE sixteenths, max_denominator)
        ELSE limit_loop(x, 1, 0, floor, 1, NInt(1), remainder)

\* f"{quantity:.1f}": the exact value rounded to tenths, ties to even
format_1f(x) ==
    LET t      == NMul(x.mag, 10)
        half   == Pow2N(FracBits - 1)
        up     == \/ NLess(half, NFrac(t))
                  \/ NFrac(t) = half /\ t[NumLimbs] % 2 = 1
        tenths == t[NumLimbs] + (IF up THEN 1 ELSE 0)
    IN  (IF x.neg THEN <<"-">> ELSE <<>>)
        \o NatToStr(tenths \div 10) \o <<".">> \o NatToStr(tenths % 10)

\* the literal 0.01
FHundredth == FloatOfRatio(FALSE, 1, 100)

format_quantity(quantity) ==
    LET frac      == limit_denominator(quantity)
        as_float  == FloatOfRatio(frac.num < 0, Abs(frac.num), frac.den)
        error     == FAdd(as_float, [quantity EXCEPT !.neg = ~quantity.neg])
        whole     == frac.num \div frac.den
        remainder == frac.num % frac.den
    IN  IF IsWhole(quantity) THEN IntToStr(int(quantity))
        ELSE IF NLess(error.mag, FHundredth.mag)
        THEN IF frac.num > frac.den
             THEN IF remainder = 0 THEN IntToStr(whole)
                  ELSE IntToStr(whole) \o <<" ">> \o IntToStr(remainder)
                       \o <<"/">> \o IntToStr(frac.den)
             ELSE IntToStr(frac.num) \o <<"/">> \o IntToStr(frac.den)
        ELSE format_1f(quantity)

-----------------------------------------------------------------------------
(* pluralize_unit                                                          *)

\* s.endswith(p)
endswith(s, p) == Len(s) >= Len(p) /\ MatchAt(s, Len(s) - Len(p) + 1, p)

\* x <= y
FLessEq(x, y) ==
    IF FNegative(x) THEN ~FNegative(y) \/ ~NLess(x.mag, y.mag)
    ELSE ~FNegative(y) /\ ~NLess(y.mag, x.mag)

pluralize_unit(unit, quantity) ==
    IF unit = <<>> THEN <<>>
    ELSE IF FLessEq(quantity, FOne) THEN unit
    ELSE IF endswith(unit, <<"s">>) THEN unit
    ELSE unit \o <<"s">>

-----------------------------------------------------------------------------
(* generate_grocery_list_from_recipes                                      *)
(*                                                                         *)
(* recipes_dir is a function from the names of the files in the directory  *)
(* to what is there (a file with its lines, or a directory).  The result   *)
(* is a record: the exception raised ("" for none), the string returned    *)
(* and the paths of the warnings printed.                                  *)

\* what is at recipes_dir / recipe_filename
RecipeAt(recipes_dir, recipe_filename) ==
    IF recipe_filename \in DOMAIN recipes_dir
    THEN recipes_dir[recipe_filename]
    ELSE [kind |-> "missing", lines |-> <<>>]

\* the position of a character in the order of code points
CodeOrder ==
    << "\t", "\n", " ", "#", "(", ")", "*", "+", ",", "-", ".", "/" >>
    \o DigitChars \o UpperCase \o << "[", "]" >> \o LowerCase

ord(c) == CHOOSE i \in 1..Len(CodeOrder) : CodeOrder[i] = c

\* a < b for two str
RECURSIVE StrLess(_, _)
StrLess(a, b) ==
    IF b = <<>> THEN FALSE
    ELSE IF a = <<>> THEN TRUE
    ELSE IF Head(a) # Head(b) THEN ord(Head(a)) < ord(Head(b))
    ELSE StrLess(Tail(a), Tail(b))

\* the file name of a recipe name, with or without the extension
recipe_filename(recipe_name) ==
    IF endswith(recipe_name, <<".", "m", "d">>) THEN recipe_name
    ELSE recipe_name \o <<".", "m", "d">>

RECURSIVE load_all(_, _, _, _, _)

\* the rest of the loop after the k-th recipe loaded or raised: its
\* ingredients are added, FileNotFoundError becomes a warning, any other
\* exception propagates
after_load(recipe_names, recipes_dir, k, all_ingredients, warnings, loaded) ==
    IF loaded.raised = "FileNotFoundError"
    THEN load_all(recipe_names, recipes_dir, k + 1, all_ingredients,
                  Append(warnings, recipe_filename(recipe_names[k])))
    ELSE IF loaded.raised # ""
    THEN [raised |-> loaded.raised, value |-> <<>>, warnings |-> warnings]
    ELSE load_all(recipe_names, recipes_dir, k + 1, all_ingredients \o loaded.value, warnings)

\* the loop over recipe_names from the k-th name on
load_all(recipe_names, recipes_dir, k, all_ingredients, warnings) ==
    IF k > Len(recipe_names)
    THEN [raised |-> "", value |-> all_ingredients, warnings |-> warnings]
    ELSE after_load(recipe_names, recipes_dir, k, all_ingredients, warnings,
                    load_recipe_ingredients(RecipeAt(recipes_dir, recipe_filename(recipe_names[k]))))

\* categorize_from that takes the first unit of every name only
RECURSIVE categorize_from_first_unit(_, _, _)
categorize_from_first_unit(merged, i, j) ==
    IF i > Len(merged) THEN <<>>
    ELSE << [ ingredient_name |-> merged[i].name,
              unit            |-> merged[i].units[1].unit,
              quantity        |-> merged[i].units[1].quantity,
              category        |-> categorize_ingredient(merged[i].name) ] >>
         \o categorize_from_first_unit(merged, i + 1, 1)

\* the (name, unit, quantity) tuples of the merged map in the order of
\* merged.items() and units_dict.items(), each with its category
RECURSIVE categorize_from(_, _, _)
categorize_from(merged, i, j) ==
    IF i > Len(merged) THEN <<>>
    ELSE IF j > Len(merged[i].units) THEN categorize_from(merged, i + 1, 1)
    ELSE << [ ingredient_name |-> merged[i].name,
              unit            |-> merged[i].units[j].unit,
              quantity        |-> merged[i].units[j].quantity,
              category        |-> categorize_ingredient(merged[i].name) ] >>
         \o categorize_from(merged, i, j + 1)

\* the items left in the order of the merged map
sort_by_name_unsorted(items) == items

\* list.sort(key=lambda x: x[0]): stable, so each item goes behind the items
\* whose name is not greater
RECURSIVE sort_by_name(_)
sort_by_name(items) ==
    IF items = <<>> THEN <<>>
    ELSE LET last   == items[Len(items)]
             sorted == sort_by_name(SubSeq(items, 1, Len(items) - 1))
             n      == Cardinality({ i \in 1..Len(sorted) :
                                       ~StrLess(last.ingredient_name, sorted[i].ingredient_name) })
         IN  SubSeq(sorted, 1, n) \o <<last>> \o SubSeq(sorted, n + 1, Len(sorted))

\* the order of the buckets in the document, and the headings
category_order == << "Produce", "Meat", "Dairy", "Pantry", "Frozen", "Bakery", "Other" >>

CategoryText ==
    [ Produce |-> <<"P", "r", "o", "d", "u", "c", "e">>, Meat |-> <<"M", "e", "a", "t">>, Dairy |-> <<"D", "a", "i", "r", "y">>, Pantry |-> <<"P", "a", "n", "t", "r", "y">>,
      Frozen |-> <<"F", "r", "o", "z", "e", "n">>, Bakery |-> <<"B", "a", "k", "e", "r", "y">>, Other |-> <<"O", "t", "h", "e", "r">> ]

\* the checkbox line with the unit token although the unit is empty
checkbox_line_always_unit(qty_str, unit_display, ingredient_name) ==
    <<"-", " ", "[", " ", "]", " ">> \o qty_str \o <<" ">> \o unit_display \o <<" ">> \o ingredient_name

\* the checkbox line of a formatted quantity, a pluralized unit and a name
checkbox_line(qty_str, unit_display, ingredient_name) ==
    IF unit_display # <<>>
    THEN <<"-", " ", "[", " ", "]", " ">> \o qty_str \o <<" ">> \o unit_display \o <<" ">> \o ingredient_name
    ELSE <<"-", " ", "[", " ", "]", " ">> \o qty_str \o <<" ">> \o ingredient_name

\* the checkbox line of one item
entry_line(item) ==
    checkbox_line(format_quantity(item.quantity), pluralize_unit(item.unit, item.quantity),
                  item.ingredient_name)

\* the output lines of the categories from the k-th on
RECURSIVE category_lines(_, _)
category_lines(categorized, k) ==
    IF k > Len(category_order) THEN <<>>
    ELSE LET category == category_order[k]
             items    == sort_by_name(SelectSeq(categorized, LAMBDA x : x.category = category))
         IN  (IF items = <<>> THEN <<>>
              ELSE << <<"#", "#", " ">> \o CategoryText[category] \o <<"\n">> >>
                   \o [n \in 1..Len(items) |-> entry_line(items[n])]
                   \o << <<>> >>)
             \o category_lines(categorized, k + 1)

\* "\n".join(lines)
RECURSIVE join_lines(_)
join_lines(lines) ==
    IF lines = <<>> THEN <<>>
    ELSE IF Len(lines) = 1 THEN lines[1]
    ELSE lines[1] \o <<"\n">> \o join_lines(Tail(lines))

NoIngredientsDocument ==
    <<"#", " ", "G", "r", "o", "c", "e", "r", "y", " ", "L", "i", "s", "t">> \o <<"\n", "\n">>
    \o <<"N", "o", " ", "i", "n", "g", "r", "e", "d", "i", "e", "n", "t", "s", " ", "f", "o", "u", "n", "d", " ", "i", "n", " ", "t", "h", "e", " ", "s", "p", "e", "c", "i", "f", "i", "e", "d", " ", "r", "e", "c", "i", "p", "e", "s", ".">> \o <<"\n">>

\* the document of a merged map (lines 749-795), or the exception that
\* merge_ingredients raised
document_of(loaded, merged) ==
    IF merged = <<OverflowError>>
    THEN [loaded EXCEPT !.raised = "OverflowError", !.value = <<>>]
    ELSE [loaded EXCEPT !.value =
             join_lines(<< <<"#", " ", "G", "r", "o", "c", "e", "r", "y", " ", "L", "i", "s", "t">> \o <<"\n">> >>
                        \o category_lines(categorize_from(merged, 1, 1), 1))]

\* assemble without the case of no ingredients: the title and no section follow
assemble_always_sections(loaded) ==
    IF loaded.raised # "" THEN loaded
    ELSE document_of(loaded, merge_ingredients(loaded.value))

\* what follows the loop over recipe_names (lines 743-795)
assemble(loaded) ==
    IF loaded.raised # "" THEN loaded
    ELSE IF loaded.value = <<>>
    THEN [loaded EXCEPT !.value = NoIngredientsDocument]
    ELSE document_of(loaded, merge_ingredients(loaded.value))

generate_grocery_list_from_recipes(recipe_names, recipes_dir) ==
    assemble(load_all(recipe_names, recipes_dir, 1, <<>>, <<>>))

-----------------------------------------------------------------------------
(* generate_grocery_list_from_meal_plan                                    *)
(*                                                                         *)
(* What is at the path of the meal plan is a record: kind "missing" or     *)
(* "file", with the content of the file.                                   *)

\* the length of the run of characters other than '*' that starts at index i
NonStarRun(s, i) ==
    (CHOOSE j \in i..(Len(s) + 1) :
         /\ j = Len(s) + 1 \/ s[j] = "*"
         /\ \A k \in i..(j - 1) : s[k] # "*") - i

\* re.findall(r"\*\*([^*]+)\*\*", content) from index i on: the matches from
\* left to right, each search going on behind the match before
RECURSIVE findall_bold(_, _)
findall_bold(content, i) ==
    IF i > Len(content) THEN <<>>
    ELSE IF /\ MatchAt(content, i, <<"*", "*">>)
            /\ NonStarRun(content, i + 2) >= 1
            /\ MatchAt(content, i + 2 + NonStarRun(content, i + 2), <<"*", "*">>)
    THEN << SubSeq(content, i + 2, i + 1 + NonStarRun(content, i + 2)) >>
         \o findall_bold(content, i + 4 + NonStarRun(content, i + 2))
    ELSE findall_bold(content, i + 1 + NonStarRun(content, i + 1))

\* the texts that mark a bold text as no recipe title
skip_texts ==
    << <<"n", "o", " ">>, <<"r", "e", "c", "i", "p", "e", " ", "a", "v", "a", "i", "l", "a", "b", "l", "e">>, <<"b", "r", "e", "a", "k", "f", "a", "s", "t">>, <<"l", "u", "n", "c", "h">>, <<"d", "i", "n", "n", "e", "r">>,
       <<"p", "r", "e", "p", " ", "t", "i", "m", "e">>, <<"c", "o", "o", "k", " ", "t", "i", "m", "e">>, <<"t", "o", "t", "a", "l", " ", "t", "i", "m", "e">> >>

\* s.replace(" ", "-")
replace_spaces(s) == [i \in 1..Len(s) |-> IF s[i] = " " THEN "-" ELSE s[i]]

\* the loop over the matches from the k-th on
RECURSIVE recipe_names_from(_, _, _)
recipe_names_from(matches, k, recipe_names) ==
    IF k > Len(matches) THEN recipe_names
    ELSE IF /\ strip(matches[k]) # <<>>
            /\ \A n \in 1..Len(skip_texts) : ~Contains(lower(matches[k]), skip_texts[n])
            /\ \A n \in 1..Len(recipe_names) :
                   recipe_names[n] # replace_spaces(lower(strip(matches[k])))
    THEN recipe_names_from(matches, k + 1,
             Append(recipe_names, replace_spaces(lower(strip(matches[k])))))
    ELSE recipe_names_from(matches, k + 1, recipe_names)

\* the recipe names extracted from the content of a meal plan
meal_plan_recipe_names(content) == recipe_names_from(findall_bold(content, 1), 1, <<>>)

generate_grocery_list_from_meal_plan(meal_plan, recipes_dir) ==
    IF meal_plan.kind = "missing"
    THEN [raised |-> "FileNotFoundError", value |-> <<>>, warnings |-> <<>>]
    ELSE generate_grocery_list_from_recipes(meal_plan_recipe_names(meal_plan.content),
                                            recipes_dir)

-----------------------------------------------------------------------------
(* generate_meal_plan.py.  A recipe, the profile and the constraints are   *)
(* dictionaries: functions on their keys.  The suggestion of the language  *)
(* model comes from outside the program and is an input of the selection.  *)

MIN_WORD_LENGTH_FOR_MATCHING == 3

\* d.get(key, default)
get(d, key, default) == IF key \in DOMAIN d THEN d[key] ELSE default

\* re.search(r"(\d+)", s) finds a match
has_number(s) == \E i \in 1..Len(s) : IsDigit(s[i])

\* int(re.search(r"(\d+)", s).group(1)) where there is a match
first_number(s) ==
    LET i == CHOOSE j \in 1..Len(s) : IsDigit(s[j]) /\ \A k \in 1..(j - 1) : ~IsDigit(s[k])
    IN  IntOf(SubSeq(s, i, i + DigitRun(s, i) - 1))

\* the time a recipe may take on the day
max_time(is_weeknight, time_constraints) ==
    IF is_weeknight THEN time_constraints.max_weeknight_prep_minutes
    ELSE time_constraints.max_weekend_prep_minutes

\* the test of the recipe's time against the limit
within_time(total_time_str, limit) ==
    has_number(total_time_str) => ~(first_number(total_time_str) > limit)

\* is_recipe_suitable for constraints that hold the time section with both
\* limits (it raises ValueError or KeyError for others)
is_recipe_suitable(recipe, profile, is_weeknight, constraints) ==
    within_time(
        get(recipe, "Total Time",
            NatToStr(constraints.time.max_weeknight_prep_minutes) \o <<" ", "m", "i", "n", "u", "t", "e", "s">>),
        max_time(is_weeknight, constraints.time))

extract_significant_words(text) ==
    SelectSeq(split(lower(text)), LAMBDA word : Len(word) >= MIN_WORD_LENGTH_FOR_MATCHING)

\* the filter that keeps every recipe of the meal type that fits the day,
\* used recently or not
suitable_recipes_with_recent(meal_type, recipes, profile, is_weeknight, constraints, recently_used) ==
    SelectSeq(recipes, LAMBDA r :
        /\ lower(get(r, "Category", <<>>)) = meal_type
        /\ is_recipe_suitable(r, profile, is_weeknight, constraints))

\* the recipes that meet the hard constraints, in the order of the list
suitable_recipes(meal_type, recipes, profile, is_weeknight, constraints, recently_used) ==
    SelectSeq(recipes, LAMBDA r :
        /\ lower(get(r, "Category", <<>>)) = meal_type
        /\ is_recipe_suitable(r, profile, is_weeknight, constraints)
        /\ \A n \in 1..Len(recently_used) : get(r, "filename", None) # recently_used[n])

\* any(word in text for word in words)
any_word_in(words, text) == \E n \in 1..Len(words) : Contains(text, words[n])

\* the two tests of one recipe title against the suggestion
matches_suggestion(recipe_title, llm_suggestion) ==
    \/ any_word_in(extract_significant_words(llm_suggestion), lower(recipe_title))
    \/ any_word_in(extract_significant_words(recipe_title), lower(llm_suggestion))
    \/ Contains(lower(recipe_title), lower(llm_suggestion))
    \/ Contains(lower(llm_suggestion), lower(recipe_title))

\* the index of the first suitable recipe from the k-th on that matches the
\* suggestion, 0 when none does
RECURSIVE first_match(_, _, _)
first_match(suitable, llm_suggestion, k) ==
    IF k > Len(suitable) THEN 0
    ELSE IF matches_suggestion(get(suitable[k], "title", <<>>), llm_suggestion) THEN k
    ELSE first_match(suitable, llm_suggestion, k + 1)

\* the recipes the selection may return from the suitable ones: the first
\* match of a suggestion, or whichever random.choice picks
chosen_from(suitable, match) ==
    IF match > 0 THEN { suitable[match] }
    ELSE { suitable[n] : n \in 1..Len(suitable) }

\* None where a recipe is expected
NoRecipe == [None |-> TRUE]

\* the values select_meal_with_llm may return
select_from(suitable, llm_suggestion) ==
    IF suitable = <<>> THEN { NoRecipe }
    ELSE IF llm_suggestion # None /\ llm_suggestion # <<>>
    THEN chosen_from(suitable, first_match(suitable, llm_suggestion, 1))
    ELSE chosen_from(suitable, 0)

select_meal_with_llm(meal_type, recipes, profile, is_weeknight, constraints, recently_used, llm_suggestion) ==
    select_from(suitable_recipes(meal_type, recipes, profile, is_weeknight, constraints,
                                 recently_used),
                llm_suggestion)

\* generate_meal_plan.  A date is the number of days since a Monday, so
\* that date.weekday() is the date modulo 7; the plan is built one meal at a
\* time, and a frame holds the local variables between the meals.

meal_types == << <<"b", "r", "e", "a", "k", "f", "a", "s", "t">>, <<"l", "u", "n", "c", "h">>, <<"d", "i", "n", "n", "e", "r">> >>

DayNames ==
    << <<"M", "o", "n", "d", "a", "y">>, <<"T", "u", "e", "s", "d", "a", "y">>, <<"W", "e", "d", "n", "e", "s", "d", "a", "y">>, <<"T", "h", "u", "r", "s", "d", "a", "y">>, <<"F", "r", "i", "d", "a", "y">>, <<"S", "a", "t", "u", "r", "d", "a", "y">>,
       <<"S", "u", "n", "d", "a", "y">> >>

\* current_date.weekday()
weekday(date) == date % 7

\* current_date.strftime("%A")
day_name(date) == DayNames[weekday(date) + 1]

\* d[key] = value
set_item(d, key, value) == (key :> value) @@ d

\* the entry of a meal that found no recipe
no_recipe_available(meal_type) ==
    [title |-> <<"N", "o", " ">> \o meal_type \o <<" ", "r", "e", "c", "i", "p", "e", " ", "a", "v", "a", "i", "l", "a", "b", "l", "e">>,
     note |-> <<"C", "o", "n", "s", "i", "d", "e", "r", " ", "a", "d", "d", "i", "n", "g", " ", "m", "o", "r", "e", " ", "r", "e", "c", "i", "p", "e", "s", " ", "t", "o", " ", "t", "h", "e", " ", "d", "a", "t", "a", "b", "a", "s", "e">>]

default_min_days_between_repeats == 3

\* constraints.get("variety", {}).get("min_days_between_repeats", 3)
max_recently_used(constraints) ==
    get(get(constraints, "variety", <<>>), "min_days_between_repeats",
        default_min_days_between_repeats)

\* recently_used after the recipe's filename is appended: the oldest entry
\* goes when the list is longer than the limit allows
remember(recently_used, filename, limit) ==
    IF Len(recently_used) + 1 > limit
    THEN Tail(Append(recently_used, filename))
    ELSE Append(recently_used, filename)

\* the local variables when the loop over the days begins
plan_frame(profile, constraints) ==
    [meal_plan |-> [profile_name |-> get(profile, "Name", <<"U", "n", "k", "n", "o", "w", "n">>),
                    week_start |-> constraints.week.start_date,
                    week_end |-> constraints.week.end_date,
                    week |-> <<>>],
     recently_used |-> <<>>,
     current_date |-> constraints.week.start_date,
     daily_meals |-> <<>>,
     meal |-> 1]

\* the local variables after the meal of the frame got the chosen recipe
\* (NoRecipe when select_meal_with_llm returned None)
plan_meal(frame, constraints, chosen_recipe) ==
    IF chosen_recipe # NoRecipe
    THEN [frame EXCEPT
             !.daily_meals = set_item(@, meal_types[frame.meal], chosen_recipe),
             !.recently_used = remember(@, get(chosen_recipe, "filename", None),
                                        max_recently_used(constraints)),
             !.meal = @ + 1]
    ELSE [frame EXCEPT
             !.daily_meals = set_item(@, meal_types[frame.meal],
                                      no_recipe_available(meal_types[frame.meal])),
             !.meal = @ + 1]

\* the local variables after the day's meals are put into the plan
next_day(frame) ==
    [frame EXCEPT
        !.meal_plan.week = set_item(@, day_name(frame.current_date), frame.daily_meals),
        !.current_date = @ + 1,
        !.daily_meals = <<>>,
        !.meal = 1]

-----------------------------------------------------------------------------
(* Invocations.  Each specification calls one operation of the module on   *)
(* every input of a bounded set; a second invocation, where there is one,  *)
(* is given a value derived from the first.                                *)

\* The module as imported, and no invocation running step by step.
Imported == frames = <<>> /\ keywords = CATEGORY_KEYWORDS

Idle == pc2 = "idle" /\ arg2 = Pending /\ ret2 = Pending /\ Imported

(* ---- parse_quantity_range ---- *)

\* non-negative integers, decimals and fractions, with their exact values
RangeOperands ==
    { [text |-> <<"1">>,   num |-> 1,  den |-> 1],
      [text |-> <<"3">>,   num |-> 3,  den |-> 1],
      [text |-> <<"1", "2">>,  num |-> 12, den |-> 1],
      [text |-> <<"0", ".", "1">>, num |-> 1,  den |-> 10],
      [text |-> <<"0", ".", "2">>, num |-> 2,  den |-> 10],
      [text |-> <<".", "5">>,  num |-> 5,  den |-> 10],
      [text |-> <<"1", "/", "2">>, num |-> 1,  den |-> 2],
      [text |-> <<"2", "/", "3">>, num |-> 2,  den |-> 3] }

\* signed operands, operands that do not parse, the empty operand, a number
\* beyond the range of float
OtherOperands ==
    { <<"-", "3">>, <<"-", "1", "/", "2">>, <<"+", "2">>, <<"1", "/", "0">>, <<"x">>, <<>>,
      <<"1", "e", "4", "0", "0">> }

OperandTexts == { a.text : a \in RangeOperands } \cup OtherOperands

\* what stands between the operands of a range
HyphenSeparators == { <<"-">> }
ToSeparators == { <<" ", "t", "o", " ">>, <<" ", "T", "O", " ">>, <<" ", "T", "o", " ">> }
OtherSeparators == { <<" ", "-", " ">>, <<" ", " ", "t", "o", " ", " ">>, <<"t", "o">>, <<" ", "/", " ">> }

\* ranges of more than two parts
ThreePartRanges ==
    { <<"1", "-", "2", "-", "3">>, <<"1", " ", "t", "o", " ", "2", " ", "t", "o", " ", "3">> }

QuantityInputs ==
    OperandTexts
    \cup ThreePartRanges
    \cup { a \o sep \o b : a \in OperandTexts, b \in OperandTexts,
                           sep \in HyphenSeparators \cup ToSeparators \cup OtherSeparators }

InitQuantity == pc = "call" /\ arg \in QuantityInputs /\ ret = Pending /\ Idle

ParseQuantity ==
    /\ pc = "call"
    /\ ret' = parse_quantity_range(arg)
    /\ pc' = "return"
    /\ UNCHANGED <<arg, pc2, arg2, ret2, frames, keywords>>

NextQuantity == ParseQuantity

SpecQuantity == InitQuantity /\ [][NextQuantity]_vars

(* ---- clean_ingredient_name, applied once and then to its own result ---- *)

NamePrefixes ==
    { <<>>, <<"f", "r", "e", "s", "h", " ">>, <<"D", "r", "i", "e", "d", " ">>, <<"f", "r", "e", "s", "h", " ", "d", "r", "i", "e", "d", " ">>, <<"j", "u", "i", "c", "e", " ", "o", "f", " ", "1", " ">>,
      <<"j", "u", "i", "c", "e", " ", "o", "f", " ", "2", " ", "f", "r", "e", "s", "h", " ">>, <<"J", "u", "i", "c", "e", " ", "o", "f", " ", "1", "2", " ", " ">> }

NameBases == { <<"b", "a", "s", "i", "l">>, <<"l", "i", "m", "e">>, <<"s", "a", "l", "t">>, <<"g", "r", "e", "e", "n", " ", " ", "o", "n", "i", "o", "n">> }

NameSuffixes ==
    { <<>>, <<" ", "(", "o", "p", "t", "i", "o", "n", "a", "l", ")">>, <<",", " ", "d", "i", "c", "e", "d">>, <<" ", "t", "o", " ", "t", "a", "s", "t", "e">>, <<" ", "a", "n", "d", " ", "p", "e", "p", "p", "e", "r">>,
      <<" ", "(", "a", "b", "o", "u", "t", " ", "1", "/", "2", " ", "c", "u", "p", ")", ",", " ", "c", "h", "o", "p", "p", "e", "d">> }

NameInputs ==
    { p \o b \o s : p \in NamePrefixes, b \in NameBases, s \in NameSuffixes }

InitName == pc = "call" /\ arg \in NameInputs /\ ret = Pending /\ Idle

CleanName ==
    /\ pc = "call"
    /\ ret' = clean_ingredient_name(arg)
    /\ pc' = "return"
    /\ UNCHANGED <<arg, pc2, arg2, ret2, frames, keywords>>

CleanNameAgain ==
    /\ pc = "return" /\ pc2 = "idle"
    /\ arg2' = ret
    /\ ret2' = clean_ingredient_name(ret)
    /\ pc2' = "return"
    /\ UNCHANGED <<pc, arg, ret, frames, keywords>>

NextName == CleanName \/ CleanNameAgain

SpecName == InitName /\ [][NextName]_vars

(* ---- parse_ingredient_line ---- *)

LineBullets == { <<>>, <<"-", " ">>, <<"*", " ">> }

LineQuantities == { <<>>, <<"2", " ">>, <<"1", "/", "2", " ">>, <<"3", "-", "4", " ">>, <<"1", " ", "t", "o", " ", "2", " ">> }

LineUnits == { <<>>, <<"c", "u", "p", "s", " ">>, <<"T", "b", "s", "p", " ">>, <<"l", "a", "r", "g", "e", " ">>, <<"p", "i", "n", "c", "h", " ">> }

LineNames ==
    { <<"f", "l", "o", "u", "r">>, <<"e", "g", "g", "s">>, <<"o", "l", "i", "v", "e", " ", "o", "i", "l">>, <<"(", "o", "p", "t", "i", "o", "n", "a", "l", ")">>, <<"o", "n", "i", "o", "n", ",", " ", "d", "i", "c", "e", "d", " ", "(", "a", "b", "o", "u", "t", " ", "1", "/", "2", " ", "c", "u", "p", ")">>,
      <<"S", "a", "l", "t", " ", "a", "n", "d", " ", "p", "e", "p", "p", "e", "r", " ", "t", "o", " ", "t", "a", "s", "t", "e">>, <<",", " ", "c", "h", "o", "p", "p", "e", "d">>, <<"#", " ", "N", "o", "t", "e", "s">>, <<>> }

LineInputs ==
    { b \o q \o u \o n : b \in LineBullets, q \in LineQuantities,
                         u \in LineUnits, n \in LineNames }

InitLine == pc = "call" /\ arg \in LineInputs /\ ret = Pending /\ Idle

ParseLine ==
    /\ pc = "call"
    /\ ret' = parse_ingredient_line(arg)
    /\ pc' = "return"
    /\ UNCHANGED <<arg, pc2, arg2, ret2, frames, keywords>>

NextLine == ParseLine

SpecLine == InitLine /\ [][NextLine]_vars

(* ---- two lines naming the same ingredient, parsed and then merged ---- *)

\* spellings of units the line parser recognises: its vocabulary, and some
\* of its words in other letter cases
UnitSpellings ==
    common_units \cup { <<"T", "b", "s", "p">>, <<"T", "B", "S", "P">>, <<"C", "u", "p", "s">>, <<"C", "l", "o", "v", "e", "s">>, <<"O", "z">>, <<"G">> }

UnitLinePairs ==
    { << <<"1", " ">> \o u \o <<" ", "g", "a", "r", "l", "i", "c">>, <<"2", " ">> \o v \o <<" ", "g", "a", "r", "l", "i", "c">> >> :
          u \in UnitSpellings, v \in UnitSpellings }

InitUnits == pc = "call" /\ arg \in UnitLinePairs /\ ret = Pending /\ Idle

ParseLines ==
    /\ pc = "call"
    /\ ret' = <<parse_ingredient_line(arg[1]), parse_ingredient_line(arg[2])>>
    /\ pc' = "return"
    /\ UNCHANGED <<arg, pc2, arg2, ret2, frames, keywords>>

MergeParsed ==
    /\ pc = "return" /\ pc2 = "idle"
    /\ arg2' = ret
    /\ ret2' = merge_ingredients(ret)
    /\ pc2' = "return"
    /\ UNCHANGED <<pc, arg, ret, frames, keywords>>

NextUnits == ParseLines \/ MergeParsed

SpecUnits == InitUnits /\ [][NextUnits]_vars

(* ---- merge_ingredients on a list and on a permutation of it ---- *)

\* longest list of parsed ingredients
MaxIngredients == 3

IngredientPool ==
    { << <<"0", ".", "1">>, <<"c", "u", "p">>, <<"f", "l", "o", "u", "r">> >>,
      << <<"0", ".", "2">>, <<"c", "u", "p", "s">>, <<"F", "l", "o", "u", "r">> >>,
      << <<"0", ".", "3">>, <<"c">>, <<"f", "l", "o", "u", "r">> >>,
      << <<"1", "/", "2">>, <<>>, <<"O", "l", "i", "v", "e", " ", " ", "o", "i", "l">> >>,
      << <<"1">>, <<"T", "b", "s", "p">>, <<"o", "l", "i", "v", "e", " ", "o", "i", "l">> >>,
      << <<"2", "-", "4">>, <<>>, <<"o", "l", "i", "v", "e", " ", "o", "i", "l">> >> }

IngredientLists ==
    UNION { [1..n -> IngredientPool] : n \in 0..MaxIngredients }

ListPermutations(n) ==
    { p \in [1..n -> 1..n] : \A i, j \in 1..n : p[i] = p[j] => i = j }

Permuted(list, p) == [i \in 1..Len(list) |-> list[p[i]]]

InitMerge == pc = "call" /\ arg \in IngredientLists /\ ret = Pending /\ Idle

Merge ==
    /\ pc = "call"
    /\ ret' = merge_ingredients(arg)
    /\ pc' = "return"
    /\ UNCHANGED <<arg, pc2, arg2, ret2, frames, keywords>>

MergePermuted ==
    /\ pc = "return" /\ pc2 = "idle"
    /\ \E p \in ListPermutations(Len(arg)) :
          /\ arg2' = Permuted(arg, p)
          /\ ret2' = merge_ingredients(Permuted(arg, p))
    /\ pc2' = "return"
    /\ UNCHANGED <<pc, arg, ret, frames, keywords>>

NextMerge == Merge \/ MergePermuted

SpecMerge == InitMerge /\ [][NextMerge]_vars

(* ---- categorize_ingredient ---- *)

CategoryWords ==
    { <<"b", "r", "e", "a", "d">>, <<"t", "o", "r", "t", "i", "l", "l", "a", "s">>, <<"c", "h", "i", "c", "k", "e", "n">>, <<"h", "a", "m">>, <<"c", "h", "e", "e", "s", "e">>, <<"e", "g", "g">>,
      <<"f", "r", "o", "z", "e", "n">>, <<"p", "o", "p", "s", "i", "c", "l", "e">>, <<"r", "i", "c", "e">>, <<"o", "i", "l">>, <<"c", "a", "n">>, <<"o", "n", "i", "o", "n">>, <<"p", "e", "a">>,
      <<"k", "o", "m", "b", "u", "c", "h", "a">>, <<"w", "a", "t", "e", "r">>, <<"F", "r", "o", "z", "e", "n">>, <<"R", "I", "C", "E">>, <<"C", "o", "r", "n">> }

CategorizeInputs ==
    CategoryWords \cup { a \o <<" ">> \o b : a \in CategoryWords, b \in CategoryWords }

InitCategorize == pc = "call" /\ arg \in CategorizeInputs /\ ret = Pending /\ Idle

Categorize ==
    /\ pc = "call"
    /\ ret' = categorize_ingredient(arg)
    /\ pc' = "return"
    /\ UNCHANGED <<arg, pc2, arg2, ret2, frames, keywords>>

NextCategorize == Categorize

SpecCategorize == InitCategorize /\ [][NextCategorize]_vars

(* ---- parse_quantity_range on an expression and on the same expression ---- *)
(* ---- with whitespace around its operands                              ---- *)

SpacingOperands == { <<"1">>, <<"2">>, <<"4">>, <<"0", ".", "5">> }

\* the operators of a fraction, a hyphen range and a "to" range, as they are
\* written without extra whitespace
SpacingOperators == { <<"/">>, <<"-">>, <<" ", "t", "o", " ">> }

\* whitespace put before, between and after the operands
Paddings == { <<>>, <<" ">>, <<" ", " ">> }

SpacingInputs ==
    { <<a, op, b>> : a \in SpacingOperands, op \in SpacingOperators, b \in SpacingOperands }

InitSpacing == pc = "call" /\ arg \in SpacingInputs /\ ret = Pending /\ Idle

ParseCompact ==
    /\ pc = "call"
    /\ ret' = parse_quantity_range(arg[1] \o arg[2] \o arg[3])
    /\ pc' = "return"
    /\ UNCHANGED <<arg, pc2, arg2, ret2, frames, keywords>>

ParseSpaced ==
    /\ pc = "return" /\ pc2 = "idle"
    /\ \E l, s, t, r \in Paddings :
          /\ arg2' = l \o arg[1] \o s \o arg[2] \o t \o arg[3] \o r
          /\ ret2' = parse_quantity_range(l \o arg[1] \o s \o arg[2] \o t \o arg[3] \o r)
    /\ pc2' = "return"
    /\ UNCHANGED <<pc, arg, ret, frames, keywords>>

NextSpacing == ParseCompact \/ ParseSpaced

SpecSpacing == InitSpacing /\ [][NextSpacing]_vars

(* ---- normalize_unit ---- *)

UpperChar(c) ==
    IF \E i \in 1..26 : LowerCase[i] = c
    THEN UpperCase[CHOOSE i \in 1..26 : LowerCase[i] = c]
    ELSE c

\* a lower-case token in upper case and with a capital first letter
upper(s) == [i \in 1..Len(s) |-> UpperChar(s[i])]
capitalize(s) == [i \in 1..Len(s) |-> IF i = 1 THEN UpperChar(s[i]) ELSE s[i]]

\* the tokens of the unit vocabulary, the one-letter abbreviation of recipes
\* for tablespoon (T) and teaspoon (t), a token that is no unit, no unit at all
UnitTokens == common_units \cup { <<"t">>, <<"p", "i", "n", "c", "h">>, <<>> }

NormalizeInputs ==
    UnitTokens \cup { upper(u) : u \in UnitTokens } \cup { capitalize(u) : u \in UnitTokens }

InitNormalize == pc = "call" /\ arg \in NormalizeInputs /\ ret = Pending /\ Idle

Normalize ==
    /\ pc = "call"
    /\ ret' = normalize_unit(arg)
    /\ pc' = "return"
    /\ UNCHANGED <<arg, pc2, arg2, ret2, frames, keywords>>

NextNormalize == Normalize

SpecNormalize == InitNormalize /\ [][NextNormalize]_vars

(* ---- the bullet lines of a recipe, loaded and then merged ---- *)

\* longest batch of ingredient lines
MaxLines == 2

\* bullet lines "<bullet><quantity> <unit> <name>"; some quantity texts hold
\* a minus sign
BatchLines ==
    { b \o q \o <<" ">> \o u \o <<" ", "f", "l", "o", "u", "r">> :
          b \in { <<"-", " ">>, <<"*">> },
          q \in { <<"2">>, <<"1", "/", "2">>, <<"1", " ", "t", "o", " ", "2">>, <<"-", "2">>, <<"-", "3", " ", "t", "o", " ", "1">>, <<"1", " ", "t", "o", " ", "-", "4">> },
          u \in { <<"c", "u", "p">>, <<"c", "u", "p", "s">> } }

Batches == UNION { [1..n -> BatchLines] : n \in 1..MaxLines }

\* what stands before and after the batch in the file
RecipeHeads == { << <<"#", "#", " ", "I", "n", "g", "r", "e", "d", "i", "e", "n", "t", "s">> >>, << <<"#", " ", "P", "a", "n", "c", "a", "k", "e", "s">>, <<"-", " ", "4", " ", "s", "e", "r", "v", "i", "n", "g", "s">>, <<"#", "#", " ", "I", "n", "g", "r", "e", "d", "i", "e", "n", "t", "s">>, <<"#", "#", "#", " ", "F", "o", "r", " ", "t", "h", "e", " ", "b", "a", "t", "t", "e", "r">> >> }
RecipeTails == { <<>>, << <<>>, <<"#", "#", " ", "I", "n", "s", "t", "r", "u", "c", "t", "i", "o", "n", "s">>, <<"-", " ", "1", " ", "c", "u", "p", " ", "w", "a", "t", "e", "r">> >> }

BatchRecipes ==
    { [kind |-> "file", lines |-> h \o batch \o t] :
          h \in RecipeHeads, batch \in Batches, t \in RecipeTails }

InitBatch == pc = "call" /\ arg \in BatchRecipes /\ ret = Pending /\ Idle

LoadRecipe ==
    /\ pc = "call"
    /\ ret' = load_recipe_ingredients(arg)
    /\ pc' = "return"
    /\ UNCHANGED <<arg, pc2, arg2, ret2, frames, keywords>>

MergeLoaded ==
    /\ pc = "return" /\ pc2 = "idle"
    /\ ret.raised = ""
    /\ arg2' = ret.value
    /\ ret2' = merge_ingredients(ret.value)
    /\ pc2' = "return"
    /\ UNCHANGED <<pc, arg, ret, frames, keywords>>

NextBatch == LoadRecipe \/ MergeLoaded

SpecBatch == InitBatch /\ [][NextBatch]_vars

(* ---- format_quantity ---- *)

\* the quantities n/d, as floats: hundredths up to 3, thirds and sixteenths,
\* thousandths around 0, 1 and 2, whole numbers, and the negatives of some
FormatRatios ==
    { <<n, 100>> : n \in 0..300 }
    \cup { <<n, 3>> : n \in 0..30 }
    \cup { <<n, 16>> : n \in 0..48 }
    \cup { <<n, 1000>> : n \in (1..9) \cup (991..1009) \cup (1991..2009) }
    \cup { <<n, 1>> : n \in 0..30 }

FormatInputs ==
    { FloatOfRatio(FALSE, r[1], r[2]) : r \in FormatRatios }
    \cup { FloatOfRatio(TRUE, n, 8) : n \in 1..24 }
    \cup { FAdd(FloatOfRatio(FALSE, 1, 10), FloatOfRatio(FALSE, 2, 10)) }

InitFormat == pc = "call" /\ arg \in FormatInputs /\ ret = Pending /\ Idle

FormatQuantity ==
    /\ pc = "call"
    /\ ret' = format_quantity(arg)
    /\ pc' = "return"
    /\ UNCHANGED <<arg, pc2, arg2, ret2, frames, keywords>>

NextFormat == FormatQuantity

SpecFormat == InitFormat /\ [][NextFormat]_vars

(* ---- generate_grocery_list_from_recipes on a batch of recipe names, and ---- *)
(* ---- on the same batch without the recipes that cannot be read        ---- *)

\* longest batch of recipe names
MaxRecipes == 2

\* the recipes directory: three recipes, a file without an Ingredients
\* section, and a directory where a recipe file is expected
RecipesDir ==
    ( <<"p", "a", "n", "c", "a", "k", "e", "s", ".", "m", "d">> :> [kind |-> "file", lines |->
          << <<"#", " ", "P", "a", "n", "c", "a", "k", "e", "s">>, <<>>, <<"#", "#", " ", "I", "n", "g", "r", "e", "d", "i", "e", "n", "t", "s">>, <<"-", " ", "2", " ", "c", "u", "p", "s", " ", "f", "l", "o", "u", "r">>, <<"-", " ", "1", "/", "2", " ", "t", "e", "a", "s", "p", "o", "o", "n", " ", "s", "a", "l", "t">>,
             <<>>, <<"#", "#", " ", "I", "n", "s", "t", "r", "u", "c", "t", "i", "o", "n", "s">>, <<"-", " ", "1", " ", "c", "u", "p", " ", "w", "a", "t", "e", "r">> >>] )
    @@ ( <<"b", "r", "e", "a", "d", ".", "m", "d">> :> [kind |-> "file", lines |->
          << <<"#", "#", " ", "I", "n", "g", "r", "e", "d", "i", "e", "n", "t", "s">>, <<"-", " ", "1", " ", "c", "u", "p", " ", "f", "l", "o", "u", "r">>, <<"-", " ", "1", " ", "t", "a", "b", "l", "e", "s", "p", "o", "o", "n", " ", "o", "l", "i", "v", "e", " ", "o", "i", "l">> >>] )
    @@ ( <<"t", "a", "c", "o", "s", ".", "m", "d">> :> [kind |-> "file", lines |->
          << <<"#", "#", " ", "I", "n", "g", "r", "e", "d", "i", "e", "n", "t", "s">>, <<"#", "#", "#", " ", "F", "o", "r", " ", "t", "h", "e", " ", "f", "i", "l", "l", "i", "n", "g">>, <<"-", " ", "1", " ", "l", "b", " ", "c", "h", "i", "c", "k", "e", "n", " ", "b", "r", "e", "a", "s", "t">>, <<"*", " ", "3", " ", "l", "a", "r", "g", "e", " ", "e", "g", "g", "s">>,
             <<"-", " ", "8", " ", "c", "o", "r", "n", " ", "t", "o", "r", "t", "i", "l", "l", "a", "s">>, <<"-", " ", "2", " ", "t", "a", "b", "l", "e", "s", "p", "o", "o", "n", "s", " ", "o", "l", "i", "v", "e", " ", "o", "i", "l">>, <<"-", " ", "2", " ", "c", "u", "p", "s", " ", "f", "r", "o", "z", "e", "n", " ", "p", "e", "a", "s">>, <<"-", " ", "4", " ", "c", "u", "p", "s", " ", "p", "o", "p", "s", "i", "c", "l", "e", "s">>,
             <<"-", " ", "1", "0", " ", "g", " ", "f", "l", "o", "u", "r">>, <<"-", " ", "1", " ", "b", "o", "t", "t", "l", "e", " ", "k", "o", "m", "b", "u", "c", "h", "a">> >>] )
    @@ ( <<"n", "o", "t", "e", "s", ".", "m", "d">> :> [kind |-> "file", lines |-> << <<"#", " ", "N", "o", "t", "e", "s">>, <<"-", " ", "2", " ", "c", "u", "p", "s", " ", "s", "u", "g", "a", "r">> >>] )
    @@ ( <<"a", "r", "c", "h", "i", "v", "e", ".", "m", "d">> :> [kind |-> "directory", lines |-> <<>>] )

\* recipe names, with and without the extension; ghost is not in the directory
RecipeNames == { <<"p", "a", "n", "c", "a", "k", "e", "s">>, <<"b", "r", "e", "a", "d", ".", "m", "d">>, <<"t", "a", "c", "o", "s">>, <<"n", "o", "t", "e", "s">>, <<"a", "r", "c", "h", "i", "v", "e">>, <<"g", "h", "o", "s", "t">> }

RecipeBatches == UNION { [1..n -> RecipeNames] : n \in 0..MaxRecipes }

\* the recipe of that name cannot be read: there is no such file, or the path
\* is not a file
IsUnavailable(recipe_name) ==
    RecipeAt(RecipesDir, recipe_filename(recipe_name)).kind # "file"

InitGrocery == pc = "call" /\ arg \in RecipeBatches /\ ret = Pending /\ Idle

Generate ==
    /\ pc = "call"
    /\ ret' = generate_grocery_list_from_recipes(arg, RecipesDir)
    /\ pc' = "return"
    /\ UNCHANGED <<arg, pc2, arg2, ret2, frames, keywords>>

GenerateWithoutUnavailable ==
    /\ pc = "return" /\ pc2 = "idle"
    /\ arg2' = SelectSeq(arg, LAMBDA name : ~IsUnavailable(name))
    /\ ret2' = generate_grocery_list_from_recipes(
                   SelectSeq(arg, LAMBDA name : ~IsUnavailable(name)), RecipesDir)
    /\ pc2' = "return"
    /\ UNCHANGED <<pc, arg, ret, frames, keywords>>

NextGrocery == Generate \/ GenerateWithoutUnavailable

SpecGrocery == InitGrocery /\ [][NextGrocery]_vars

(* ---- two invocations of generate_grocery_list_from_recipes that run step ---- *)
(* ---- by step, in any interleaving                                      ---- *)

Invocations == {1, 2}

\* a batch of two recipes, a batch with a missing recipe, a batch without
\* ingredients and a batch with a recipe that cannot be read
ConcurrentBatches ==
    { << <<"p", "a", "n", "c", "a", "k", "e", "s">>, <<"b", "r", "e", "a", "d", ".", "m", "d">> >>, << <<"g", "h", "o", "s", "t">>, <<"b", "r", "e", "a", "d", ".", "m", "d">> >>,
      << <<"n", "o", "t", "e", "s">> >>, << <<"p", "a", "n", "c", "a", "k", "e", "s">>, <<"a", "r", "c", "h", "i", "v", "e">> >> }

\* all invocations keep their local variables in one place
frame_shared(t) == 1

\* where an invocation keeps all_ingredients, merged, categorized and its
\* loop counters: they are local variables, so each call has them for itself
frame_of(t) == t

PcOf(t) == IF t = 1 THEN pc ELSE pc2

ArgOf(t) == IF t = 1 THEN arg ELSE arg2

\* the invocation goes on at a position
Goto(t, position) ==
    /\ IF t = 1 THEN pc' = position /\ UNCHANGED pc2
                ELSE pc2' = position /\ UNCHANGED pc
    /\ UNCHANGED <<ret, ret2>>

\* the invocation returns or raises
Return(t, raised, value, warnings) ==
    IF t = 1
    THEN /\ pc' = "return"
         /\ ret' = [raised |-> raised, value |-> value, warnings |-> warnings]
         /\ UNCHANGED <<pc2, ret2>>
    ELSE /\ pc2' = "return"
         /\ ret2' = [raised |-> raised, value |-> value, warnings |-> warnings]
         /\ UNCHANGED <<pc, ret>>

InitConcurrent ==
    /\ pc = "call" /\ arg \in ConcurrentBatches /\ ret = Pending
    /\ pc2 = "call" /\ arg2 \in ConcurrentBatches /\ ret2 = Pending
    /\ frames = [f \in Invocations |-> Pending]
    /\ keywords = CATEGORY_KEYWORDS

\* all_ingredients = [] and the start of the loop over recipe_names
Enter(t) ==
    /\ PcOf(t) = "call"
    /\ frames' = [frames EXCEPT ![frame_of(t)] =
                     [k |-> 1, all_ingredients |-> <<>>, warnings |-> <<>>,
                      n |-> 1, merged |-> <<>>, categorized |-> <<>>]]
    /\ Goto(t, "load")
    /\ UNCHANGED <<arg, arg2, keywords>>

\* one iteration of the loop over recipe_names, or what follows the loop
Load(t) ==
    /\ PcOf(t) = "load"
    /\ LET f == frames[frame_of(t)]
       IN  IF f.k > Len(ArgOf(t))
           THEN /\ IF f.all_ingredients = <<>>
                   THEN Return(t, "", NoIngredientsDocument, f.warnings)
                   ELSE Goto(t, "merge")
                /\ UNCHANGED frames
           ELSE \E loaded \in { load_recipe_ingredients(
                                   RecipeAt(RecipesDir, recipe_filename(ArgOf(t)[f.k]))) } :
                    IF loaded.raised = "FileNotFoundError"
                    THEN /\ frames' = [frames EXCEPT ![frame_of(t)] =
                                [f EXCEPT !.k = f.k + 1,
                                          !.warnings = Append(f.warnings,
                                                              recipe_filename(ArgOf(t)[f.k]))]]
                         /\ Goto(t, "load")
                    ELSE IF loaded.raised # ""
                    THEN /\ Return(t, loaded.raised, <<>>, f.warnings)
                         /\ UNCHANGED frames
                    ELSE /\ frames' = [frames EXCEPT ![frame_of(t)] =
                                [f EXCEPT !.k = f.k + 1,
                                          !.all_ingredients = f.all_ingredients \o loaded.value]]
                         /\ Goto(t, "load")
    /\ UNCHANGED <<arg, arg2, keywords>>

\* one iteration of the loop of merge_ingredients, or its return
MergeStep(t) ==
    /\ PcOf(t) = "merge"
    /\ LET f == frames[frame_of(t)]
       IN  IF f.n > Len(f.all_ingredients)
           THEN Goto(t, "categorize") /\ UNCHANGED frames
           ELSE \E next \in { merge_one(f.merged, f.all_ingredients[f.n]) } :
                    IF next = <<OverflowError>>
                    THEN Return(t, "OverflowError", <<>>, f.warnings) /\ UNCHANGED frames
                    ELSE /\ frames' = [frames EXCEPT ![frame_of(t)] =
                                [f EXCEPT !.n = f.n + 1, !.merged = next]]
                         /\ Goto(t, "merge")
    /\ UNCHANGED <<arg, arg2, keywords>>

\* the merged entries are put into the buckets of their categories
CategorizeStep(t) ==
    /\ PcOf(t) = "categorize"
    /\ frames' = [frames EXCEPT ![frame_of(t)].categorized =
                     categorize_from(frames[frame_of(t)].merged, 1, 1)]
    /\ Goto(t, "format")
    /\ UNCHANGED <<arg, arg2, keywords>>

\* the buckets are sorted and written out, and the document is returned
FormatStep(t) ==
    /\ PcOf(t) = "format"
    /\ Return(t, "",
              join_lines(<< <<"#", " ", "G", "r", "o", "c", "e", "r", "y", " ", "L", "i", "s", "t">> \o <<"\n">> >>
                         \o category_lines(frames[frame_of(t)].categorized, 1)),
              frames[frame_of(t)].warnings)
    /\ UNCHANGED <<arg, arg2, frames, keywords>>

NextConcurrent ==
    \E t \in Invocations :
        Enter(t) \/ Load(t) \/ MergeStep(t) \/ CategorizeStep(t) \/ FormatStep(t)

SpecConcurrent == InitConcurrent /\ [][NextConcurrent]_vars

(* ---- load_recipe_ingredients on files made of headers and bullet lines ---- *)

\* longest file of the scan
MaxScanLines == 4

\* the header that opens the section, a header that closes it, a subsection
\* header, a header that does neither, bullet lines, an indented bullet line
ScanLines ==
    { <<"#", "#", " ", "I", "n", "g", "r", "e", "d", "i", "e", "n", "t", "s">>, <<"#", "#", " ", "I", "n", "s", "t", "r", "u", "c", "t", "i", "o", "n", "s">>, <<"#", "#", "#", " ", "F", "o", "r", " ", "t", "h", "e", " ", "s", "a", "u", "c", "e">>,
      <<"#", "#", " ", "O", "t", "h", "e", "r", " ", "I", "n", "g", "r", "e", "d", "i", "e", "n", "t", "s">>, <<"-", " ", "1", " ", "c", "u", "p", " ", "f", "l", "o", "u", "r">>, <<"*", " ", "2", " ", "e", "g", "g", "s">>, <<" ", " ", "-", " ", "1", " ", "t", "s", "p", " ", "s", "a", "l", "t">> }

ScanFiles ==
    { [kind |-> "file", lines |-> lines] :
          lines \in UNION { [1..n -> ScanLines] : n \in 0..MaxScanLines } }

InitScan == pc = "call" /\ arg \in ScanFiles /\ ret = Pending /\ Idle

NextScan == LoadRecipe

SpecScan == InitScan /\ [][NextScan]_vars

\* -- generate_grocery_list_from_meal_plan on the plans of a bounded set

MaxMeals == 2

MealTypeHeadings == << <<"#", "#", "#", " ", "B", "r", "e", "a", "k", "f", "a", "s", "t">>, <<"#", "#", "#", " ", "L", "u", "n", "c", "h">>, <<"#", "#", "#", " ", "D", "i", "n", "n", "e", "r">> >>

\* the titles a meal of a plan has: recipes of RecipesDir, recipes that are
\* not there, and the text a meal without a recipe gets
MealTitles ==
    { <<"P", "a", "n", "c", "a", "k", "e", "s">>, <<"B", "r", "e", "a", "d">>, <<"T", "a", "c", "o", "s">>, <<"N", "o", "t", "e", "s">>, <<"B", "r", "e", "a", "k", "f", "a", "s", "t", " ", "B", "u", "r", "r", "i", "t", "o", "s">>,
      <<"C", "h", "i", "c", "k", "e", "n", " ", "T", "a", "c", "o", "s">>, <<"N", "o", " ", "r", "e", "c", "i", "p", "e">> }

\* the lines of the meals from the k-th on
RECURSIVE meal_lines(_, _)
meal_lines(titles, k) ==
    IF k > Len(titles) THEN <<>>
    ELSE << MealTypeHeadings[k], <<>>, <<"*", "*">> \o titles[k] \o <<"*", "*">>,
            <<"-", " ", "P", "r", "e", "p", " ", "T", "i", "m", "e", ":", " ", "1", "5", " ", "m", "i", "n", "u", "t", "e", "s">>, <<>> >> \o meal_lines(titles, k + 1)

\* a plan of one day as format_meal_plan_as_markdown writes it
meal_plan_markdown(titles) ==
    join_lines(<< <<"#", " ", "W", "e", "e", "k", "l", "y", " ", "M", "e", "a", "l", " ", "P", "l", "a", "n", " ", "f", "o", "r", " ", "A", "n", "n">>, <<>>,
                  <<"*", "*", "W", "e", "e", "k", " ", "o", "f", " ", "2", "0", "2", "6", "-", "0", "1", "-", "1", "9", " ", "t", "o", " ", "2", "0", "2", "6", "-", "0", "1", "-", "2", "5", "*", "*">>, <<>>, <<"-", "-", "-">>, <<>>,
                  <<"#", "#", " ", "M", "o", "n", "d", "a", "y">>, <<>> >>
               \o meal_lines(titles, 1) \o << <<"-", "-", "-">>, <<>> >>)

MealPlans ==
    { [kind |-> "missing", content |-> <<>>, titles |-> <<>>] }
    \cup { [kind |-> "file", content |-> meal_plan_markdown(titles), titles |-> titles] :
           titles \in UNION { [1..n -> MealTitles] : n \in 0..MaxMeals } }

InitMealPlan == pc = "call" /\ arg \in MealPlans /\ ret = Pending /\ Idle

\* the whole call; arg2 holds the recipe names it hands to
\* generate_grocery_list_from_recipes
GenerateFromMealPlan ==
    /\ pc = "call"
    /\ ret' = generate_grocery_list_from_meal_plan(arg, RecipesDir)
    /\ arg2' = IF arg.kind = "missing" THEN arg2 ELSE meal_plan_recipe_names(arg.content)
    /\ pc' = "return"
    /\ UNCHANGED <<arg, pc2, ret2, frames, keywords>>

NextMealPlan == GenerateFromMealPlan

SpecMealPlan == InitMealPlan /\ [][NextMealPlan]_vars

\* -- select_meal_with_llm on the lists of a pool of recipes

Profile == [Name |-> <<"A", "n", "n">>]

TimeConstraints == [max_weeknight_prep_minutes |-> 45, max_weekend_prep_minutes |-> 120]

\* recipes as load_recipes reads them: two that fit every day, one that fits
\* the weekend only, one without a time, one that never fits, one breakfast
RecipePool ==
    << [title |-> <<"C", "h", "i", "c", "k", "e", "n", " ", "T", "e", "r", "i", "y", "a", "k", "i", " ", "B", "o", "w", "l">>, Category |-> <<"D", "i", "n", "n", "e", "r">>,
        filename |-> <<"c", "h", "i", "c", "k", "e", "n", "-", "t", "e", "r", "i", "y", "a", "k", "i", "-", "b", "o", "w", "l", ".", "m", "d">>] @@ ("Total Time" :> <<"3", "5", " ", "m", "i", "n", "u", "t", "e", "s">>),
       [title |-> <<"G", "r", "i", "l", "l", "e", "d", " ", "S", "a", "l", "m", "o", "n">>, Category |-> <<"D", "i", "n", "n", "e", "r">>,
        filename |-> <<"g", "r", "i", "l", "l", "e", "d", "-", "s", "a", "l", "m", "o", "n", ".", "m", "d">>],
       [title |-> <<"S", "l", "o", "w", " ", "R", "o", "a", "s", "t">>, Category |-> <<"D", "i", "n", "n", "e", "r">>,
        filename |-> <<"s", "l", "o", "w", "-", "r", "o", "a", "s", "t", ".", "m", "d">>] @@ ("Total Time" :> <<"9", "0", " ", "m", "i", "n", "u", "t", "e", "s">>),
       [title |-> <<"P", "i">>, Category |-> <<"d", "i", "n", "n", "e", "r">>,
        filename |-> <<"p", "i", ".", "m", "d">>] @@ ("Total Time" :> <<"2", "0", " ", "m", "i", "n", "u", "t", "e", "s">>),
       [title |-> <<"G", "r", "e", "e", "n", " ", "T", "e", "a">>, Category |-> <<"B", "r", "e", "a", "k", "f", "a", "s", "t">>,
        filename |-> <<"g", "r", "e", "e", "n", "-", "t", "e", "a", ".", "m", "d">>] @@ ("Total Time" :> <<"5", " ", "m", "i", "n", "u", "t", "e", "s">>),
       [title |-> <<"A", "l", "l", " ", "D", "a", "y", " ", "S", "t", "e", "w">>, Category |-> <<"D", "i", "n", "n", "e", "r">>,
        filename |-> <<"a", "l", "l", "-", "d", "a", "y", "-", "s", "t", "e", "w", ".", "m", "d">>] @@ ("Total Time" :> <<"2", "4", "0", " ", "m", "i", "n", "u", "t", "e", "s">>) >>

\* the recipes of the pool at the positions of a set, in the order of the pool
PoolList(positions) ==
    SelectSeq(RecipePool, LAMBDA r : \E n \in positions : RecipePool[n] = r)

\* what the language model may answer: nothing, or a meal name
Suggestions ==
    { None, <<"T", "e", "r", "i", "y", "a", "k", "i", " ", "C", "h", "i", "c", "k", "e", "n">>, <<"P", "i", "e">>, <<"T", "o", "f", "u", " ", "S", "c", "r", "a", "m", "b", "l", "e">>, <<"T", "e", "a">> }

Selections ==
    [ meal_type : { <<"b", "r", "e", "a", "k", "f", "a", "s", "t">>, <<"d", "i", "n", "n", "e", "r">> },
      recipes : { PoolList(positions) : positions \in SUBSET (1..Len(RecipePool)) },
      is_weeknight : BOOLEAN,
      recently_used : { <<>>, << <<"g", "r", "i", "l", "l", "e", "d", "-", "s", "a", "l", "m", "o", "n", ".", "m", "d">> >>,
                        << <<"c", "h", "i", "c", "k", "e", "n", "-", "t", "e", "r", "i", "y", "a", "k", "i", "-", "b", "o", "w", "l", ".", "m", "d">>, <<"p", "i", ".", "m", "d">> >> },
      llm_suggestion : Suggestions ]

InitSelect == pc = "call" /\ arg \in Selections /\ ret = Pending /\ Idle

SelectMeal ==
    /\ pc = "call"
    /\ \E chosen \in select_meal_with_llm(arg.meal_type, arg.recipes, Profile,
                                          arg.is_weeknight, [time |-> TimeConstraints],
                                          arg.recently_used, arg.llm_suggestion) :
           ret' = chosen
    /\ pc' = "return"
    /\ UNCHANGED <<arg, pc2, arg2, ret2, frames, keywords>>

NextSelect == SelectMeal

SpecSelect == InitSelect /\ [][NextSelect]_vars

\* -- generate_meal_plan on the weeks and constraints of a bounded set

MaxDays == 3

\* two recipes for breakfast and for dinner, one for lunch, and a dinner that
\* fits the weekend only
PlanRecipes ==
    PoolList({1, 2, 3, 5})
    \o << [title |-> <<"O", "a", "t", "m", "e", "a", "l">>, Category |-> <<"B", "r", "e", "a", "k", "f", "a", "s", "t">>, filename |-> <<"o", "a", "t", "m", "e", "a", "l", ".", "m", "d">>],
          [title |-> <<"C", "l", "u", "b", " ", "S", "a", "n", "d", "w", "i", "c", "h">>, Category |-> <<"L", "u", "n", "c", "h">>,
           filename |-> <<"c", "l", "u", "b", "-", "s", "a", "n", "d", "w", "i", "c", "h", ".", "m", "d">>] >>

\* the weeks begin on a Monday (date 0) or on a Friday (date 4)
PlanConstraints ==
    { [week |-> [start_date |-> start, end_date |-> start + days - 1],
       time |-> TimeConstraints,
       meals_per_day |-> [meal_type \in wanted |-> 1],
       variety |-> [min_days_between_repeats |-> n]] :
      start \in {0, 4}, days \in 0..MaxDays, n \in 1..MaxDays,
      wanted \in SUBSET { meal_types[k] : k \in 1..Len(meal_types) } }

InitPlan == pc = "call" /\ arg \in PlanConstraints /\ ret = Pending /\ Idle

\* the dates are checked and the loop over the days begins
BeginPlan ==
    /\ pc = "call"
    /\ IF arg.week.start_date > arg.week.end_date
       THEN /\ ret' = [raised |-> "ValueError"]
            /\ pc' = "return"
            /\ UNCHANGED frames
       ELSE /\ frames' = << plan_frame(Profile, arg) >>
            /\ pc' = "plan"
            /\ UNCHANGED ret
    /\ UNCHANGED <<arg, pc2, arg2, ret2, keywords>>

\* one pass of the loop over the meal types: a meal that is wanted gets what
\* select_meal_with_llm returns for some suggestion of the language model
PlanMeal ==
    /\ pc = "plan"
    /\ frames[1].current_date <= arg.week.end_date
    /\ frames[1].meal <= Len(meal_types)
    /\ IF get(arg.meals_per_day, meal_types[frames[1].meal], 0) > 0
       THEN \E llm_suggestion \in Suggestions :
                \E chosen_recipe \in
                       select_meal_with_llm(meal_types[frames[1].meal], PlanRecipes, Profile,
                                            weekday(frames[1].current_date) < 5, arg,
                                            frames[1].recently_used, llm_suggestion) :
                    frames' = << plan_meal(frames[1], arg, chosen_recipe) >>
       ELSE frames' = << [frames[1] EXCEPT !.meal = @ + 1] >>
    /\ UNCHANGED <<pc, arg, ret, pc2, arg2, ret2, keywords>>

\* the day's meals go into the plan and the next day begins
EndDay ==
    /\ pc = "plan"
    /\ frames[1].current_date <= arg.week.end_date
    /\ frames[1].meal > Len(meal_types)
    /\ frames' = << next_day(frames[1]) >>
    /\ UNCHANGED <<pc, arg, ret, pc2, arg2, ret2, keywords>>

ReturnPlan ==
    /\ pc = "plan"
    /\ frames[1].current_date > arg.week.end_date
    /\ ret' = frames[1].meal_plan
    /\ frames' = <<>>
    /\ pc' = "return"
    /\ UNCHANGED <<arg, pc2, arg2, ret2, keywords>>

NextPlan == BeginPlan \/ PlanMeal \/ EndDay \/ ReturnPlan

SpecPlan == InitPlan /\ [][NextPlan]_vars

-----------------------------------------------------------------------------
(* Properties                                                              *)

\* the keys of a merged map
MergeKeys(m) ==
    UNION { { <<m[i].name, m[i].units[j].unit>> : j \in 1..Len(m[i].units) } :
            i \in 1..Len(m) }

\* the total a merged map holds under a key
MergeTotal(m, key) ==
    LET i == CHOOSE k \in 1..Len(m) : m[k].name = key[1]
        j == CHOOSE k \in 1..Len(m[i].units) : m[i].units[k].unit = key[2]
    IN  m[i].units[j].quantity

\* no name and no unit of a name is listed twice
NoDuplicateKeys(m) ==
    /\ \A i, k \in 1..Len(m) : m[i].name = m[k].name => i = k
    /\ \A i \in 1..Len(m) : \A j, k \in 1..Len(m[i].units) :
           m[i].units[j].unit = m[i].units[k].unit => j = k

\* s without leading and trailing whitespace and with every run of
\* whitespace replaced by one space
RECURSIVE CollapseRuns(_)
CollapseRuns(s) ==
    IF s = <<>> THEN <<>>
    ELSE IF IsSpace(Head(s))
    THEN IF lstrip(s) = <<>> THEN <<>> ELSE <<" ">> \o CollapseRuns(lstrip(s))
    ELSE <<Head(s)>> \o CollapseRuns(Tail(s))

WhitespaceCollapsed(s) == CollapseRuns(lstrip(s))

\* s has no leading or trailing whitespace and no two whitespace characters
\* in a row
IsCollapsed(s) ==
    /\ s # <<>> => ~IsSpace(s[1]) /\ ~IsSpace(s[Len(s)])
    /\ \A i \in 1..(Len(s) - 1) : ~(IsSpace(s[i]) /\ IsSpace(s[i + 1]))

\* C1: for every quantity expression q, parse_quantity_range(q) >= 0.
C1_QuantityNonNegative ==
    (pc = "return" /\ ret # OverflowError) => FNonNegative(ret)

\* C2: whenever parse_ingredient_line returns a triple, the name in it is not
\* empty.
C2_NameNeverEmpty == (pc = "return" /\ ret # None) => ret[3] # <<>>

\* the spellings of one unit: letter case apart, an abbreviation and the full
\* word, a singular and its plural
UnitSynonyms ==
    { {<<"t", "b", "s", "p">>, <<"t", "b", "s">>, <<"t", "b">>, <<"t", "a", "b", "l", "e", "s", "p", "o", "o", "n">>, <<"t", "a", "b", "l", "e", "s", "p", "o", "o", "n", "s">>},
      {<<"t", "s", "p">>, <<"t", "s">>, <<"t", "e", "a", "s", "p", "o", "o", "n">>, <<"t", "e", "a", "s", "p", "o", "o", "n", "s">>},
      {<<"c">>, <<"c", "u", "p">>, <<"c", "u", "p", "s">>},
      {<<"o", "z">>, <<"o", "u", "n", "c", "e">>, <<"o", "u", "n", "c", "e", "s">>},
      {<<"l", "b">>, <<"l", "b", "s">>, <<"p", "o", "u", "n", "d">>, <<"p", "o", "u", "n", "d", "s">>},
      {<<"g">>, <<"g", "r", "a", "m">>, <<"g", "r", "a", "m", "s">>},
      {<<"k", "g">>}, {<<"m", "l">>}, {<<"l">>},
      {<<"c", "a", "n">>, <<"c", "a", "n", "s">>},
      {<<"j", "a", "r">>, <<"j", "a", "r", "s">>},
      {<<"p", "a", "c", "k", "a", "g", "e">>, <<"p", "a", "c", "k", "a", "g", "e", "s">>},
      {<<"b", "o", "x">>, <<"b", "o", "x", "e", "s">>},
      {<<"c", "l", "o", "v", "e">>, <<"c", "l", "o", "v", "e", "s">>},
      {<<"l", "a", "r", "g", "e">>}, {<<"m", "e", "d", "i", "u", "m">>}, {<<"s", "m", "a", "l", "l">>}, {<<"w", "h", "o", "l", "e">>}, {<<"c", "o", "u", "n", "t">>} }

SameUnit(u, v) == \E g \in UnitSynonyms : lower(u) \in g /\ lower(v) \in g

\* C3: two parsed ingredients with the same name whose units are different
\* spellings of the same unit have the same merge key: merge_ingredients sums
\* them into one entry.
C3_SameUnitSameKey ==
    (/\ pc2 = "return"
     /\ arg2[1][3] = arg2[2][3]
     /\ arg2[1][2] # arg2[2][2]
     /\ SameUnit(arg2[1][2], arg2[2][2]))
    => /\ Cardinality(MergeKeys(ret2)) = 1
       /\ \A key \in MergeKeys(ret2) :
              MergeTotal(ret2, key) = FloatOfRatio(FALSE, 3, 1)

\* C4: merge_ingredients is order-independent: a list and any permutation of
\* it give maps with the same keys and the same total under every key.
C4_MergeOrderIndependent ==
    pc2 = "return"
    => /\ MergeKeys(ret) = MergeKeys(ret2)
       /\ \A key \in MergeKeys(ret) : MergeTotal(ret, key) = MergeTotal(ret2, key)

\* the merge key of a parsed ingredient: its name lower-cased and
\* whitespace-collapsed, and its unit normalized
KeyOf(ingredient) ==
    <<WhitespaceCollapsed(lower(ingredient[3])), normalize_unit(ingredient[2])>>

\* the sum, from 0 and in input order, of the parsed quantities of the first
\* n inputs that map to the key
RECURSIVE QuantitySum(_, _, _)
QuantitySum(list, key, n) ==
    IF n = 0 THEN FZero
    ELSE IF KeyOf(list[n]) = key
    THEN FAdd(QuantitySum(list, key, n - 1), parse_quantity_range(list[n][1]))
    ELSE QuantitySum(list, key, n - 1)

\* C5: the map merge_ingredients returns has exactly the keys (lower-cased
\* whitespace-collapsed name, normalized unit) of its inputs, each once, and
\* under each key the sum of the parsed quantities of the inputs with that key.
C5_MergeSumsPerKey ==
    pc = "return"
    => /\ MergeKeys(ret) = { KeyOf(arg[i]) : i \in 1..Len(arg) }
       /\ NoDuplicateKeys(ret)
       /\ \A key \in MergeKeys(ret) :
              MergeTotal(ret, key) = QuantitySum(arg, key, Len(arg))

\* C5: three inputs were merged under two keys, so quantities were summed.
C5_Witness ==
    pc = "return" /\ Len(arg) = 3 /\ Cardinality(MergeKeys(ret)) = 2

\* some keyword of the category occurs in the name, letter case ignored
HasKeyword(category, name) ==
    \E k \in 1..Len(CATEGORY_KEYWORDS[category]) :
        \E i \in 1..Len(name) : MatchAtI(name, i, CATEGORY_KEYWORDS[category][k])

\* the order of categories the specification states
SpecifiedOrder == <<"Bakery", "Meat", "Dairy", "Frozen", "Pantry", "Produce">>

C7_PantryBeforeFrozen ==
    (/\ pc = "return"
     /\ HasKeyword("Pantry", arg) /\ HasKeyword("Frozen", arg)
     /\ ~HasKeyword("Bakery", arg) /\ ~HasKeyword("Meat", arg) /\ ~HasKeyword("Dairy", arg))
    => ret = "Pantry"

\* C8: clean_ingredient_name is idempotent: applied to its own result it
\* returns that result.
C8_Idempotent == pc2 = "return" => ret2 = ret

\* C9: the name clean_ingredient_name returns has no leading or trailing
\* whitespace and no run of two or more whitespace characters.
C9_WhitespaceCollapsed == pc = "return" => IsCollapsed(ret)

\* (a + b) / 2 in float arithmetic, from the exact values of the operands
Midpoint(a, b) ==
    FHalf(FAdd(FloatOfRatio(FALSE, a.num, a.den), FloatOfRatio(FALSE, b.num, b.den)))

\* C10: for a range "a-b", or "a to b" in any letter case, of non-negative
\* integers, decimals or fractions, parse_quantity_range returns the midpoint
\* (a + b) / 2.
C10_RangeMidpoint ==
    pc = "return"
    => \A a, b \in RangeOperands : \A sep \in HyphenSeparators \cup ToSeparators :
           arg = a.text \o sep \o b.text => ret = Midpoint(a, b)

\* C10: the range "0.1 TO 2/3", a decimal and a fraction in upper case, was
\* parsed to its midpoint.
C10_Witness ==
    /\ pc = "return"
    /\ arg = <<"0", ".", "1", " ", "T", "O", " ", "2", "/", "3">>
    /\ ret = FHalf(FAdd(FloatOfRatio(FALSE, 1, 10), FloatOfRatio(FALSE, 2, 3)))

\* operands that Fraction() rejects: a non-numeric token, a zero denominator
BadOperands == { <<"x">>, <<"1", "/", "0">> }

\* expressions that cannot be parsed: a bad operand alone, a range with a bad
\* operand after a good one or with two of them, a range of three parts
Unparseable ==
    BadOperands
    \cup { a \o sep \o b : a \in { o.text : o \in RangeOperands } \cup BadOperands,
                           b \in BadOperands,
                           sep \in HyphenSeparators \cup ToSeparators }
    \cup { a \o sep \o b : a \in BadOperands, b \in BadOperands,
                           sep \in HyphenSeparators \cup ToSeparators }
    \cup ThreePartRanges

\* C11: parse_quantity_range returns a number for every input, it never
\* raises, and for an expression that cannot be parsed the number is 1.0.
C11_TotalDefaultOne ==
    pc = "return"
    => /\ ret # OverflowError
       /\ arg \in Unparseable => ret = FOne

\* C12: an expression with whitespace put around its operands is parsed to the
\* same value as the expression without it.
C12_WhitespaceInsignificant == pc2 = "return" => ret2 = ret

\* the tokens the specification lists for the tablespoon
TablespoonTokens == { <<"t", "b", "s", "p">>, <<"t", "b", "s">>, <<"t">> }

\* C13: the tokens tbsp, tbs and T, in any letter case, normalize to the
\* canonical spelling tablespoon.
C13_TablespoonTokens ==
    (pc = "return" /\ lower(arg) \in TablespoonTokens) => ret = <<"t", "a", "b", "l", "e", "s", "p", "o", "o", "n">>

\* names that the Name Normalizer leaves as they are
PlainNames == { <<"f", "l", "o", "u", "r">>, <<"e", "g", "g", "s">>, <<"o", "l", "i", "v", "e", " ", "o", "i", "l">> }

\* C14: for a line "<number> large <name>", with or without a bullet,
\* parse_ingredient_line returns the number as quantity, the empty unit, and
\* as name the Name Normalizer's result for "large <name>".
C14_QualifierIsNoUnit ==
    pc = "return"
    => \A b \in LineBullets, q \in LineQuantities \ {<<>>}, n \in PlainNames :
           arg = b \o q \o <<"l", "a", "r", "g", "e", " ">> \o n
           => ret = <<strip(q), <<>>, clean_ingredient_name(<<"l", "a", "r", "g", "e", " ">> \o n)>>

\* C15: for a line that starts with a numeric expression followed by a name,
\* parse_ingredient_line returns that expression as the quantity and the name
\* without it; the quantity "1" with the whole line as name is returned only
\* for a line without a leading numeric expression.
C15_LeadingNumberIsQuantity ==
    pc = "return"
    => \A b \in LineBullets, q \in LineQuantities \ {<<>>}, n \in PlainNames :
           arg = b \o q \o n
           => ret[1] = strip(q) /\ ret[3] = clean_ingredient_name(n)

\* C16: every total of the map merged from a batch of bullet-marked
\* ingredient lines is >= 0.
C16_TotalsNonNegative ==
    pc2 = "return"
    => \A key \in MergeKeys(ret2) : FNonNegative(MergeTotal(ret2, key))

\* the fractions p/q, q <= 16, next to x on either side, with the sign of x
Approximations(x) ==
    { <<(IF x.neg THEN -1 ELSE 1) * (NMul(x.mag, q)[NumLimbs] + up), q>> :
          q \in 1..16, up \in {0, 1} }

\* |a/q_a - x| <= |b/q_b - x|
NoFarther(x, a, b) ==
    ~NLess(NMul(Distance(x, b[1], b[2]), a[2]), NMul(Distance(x, a[1], a[2]), b[2]))

\* the best rational approximations of x with denominator <= 16
BestApproximations(x) ==
    { a \in Approximations(x) : \A b \in Approximations(x) : NoFarther(x, a, b) }

\* |p/q - x| < 0.01
WithinHundredth(x, a) ==
    NLess(NMul(Distance(x, a[1], a[2]), 100), NMul(NInt(1), a[2]))

\* x < 1
BelowOne(x) == x.neg \/ x.mag[NumLimbs] = 0

\* the fraction a in lowest terms, written "n/d"; or as a mixed number
\* "w n/d", which for a whole number is "w"
AsFraction(a) ==
    LET f == FractionOf(a[1], a[2])
    IN  IntToStr(f.num) \o <<"/">> \o IntToStr(f.den)

AsMixedNumber(a) ==
    LET f == FractionOf(a[1], a[2])
    IN  IF f.num % f.den = 0 THEN IntToStr(f.num \div f.den)
        ELSE IntToStr(f.num \div f.den) \o <<" ">> \o IntToStr(f.num % f.den)
             \o <<"/">> \o IntToStr(f.den)

\* text is x in one-decimal-place notation: digits, a point and one digit,
\* standing for a number of tenths no farther than 0.05 from x
IsOneDecimal(text, x) ==
    \E tenths \in 0..((x.mag[NumLimbs] + 1) * 10) :
        /\ text = (IF x.neg THEN <<"-">> ELSE <<>>)
                  \o NatToStr(tenths \div 10) \o <<".">> \o NatToStr(tenths % 10)
        /\ ~NLess(Pow2N(FracBits - 1), NAbsDiff(NMul(x.mag, 10), NInt(tenths)))

\* C17: format_quantity renders a whole number as a plain integer; a
\* non-whole quantity whose best rational approximation with denominator
\* <= 16 is within 0.01 of it as that fraction "n/d" when the quantity is
\* below 1 and as a mixed number "w n/d" when it is above 1; any other
\* non-whole quantity in one-decimal-place notation.
C17_FormatQuantity ==
    pc = "return"
    => IF IsWhole(arg) THEN ret = IntToStr(int(arg))
       ELSE IF \E a \in BestApproximations(arg) : WithinHundredth(arg, a)
       THEN \E a \in BestApproximations(arg) :
                /\ WithinHundredth(arg, a)
                /\ ret = IF BelowOne(arg) THEN AsFraction(a) ELSE AsMixedNumber(a)
       ELSE IsOneDecimal(ret, arg)

(* ---- the document of generate_grocery_list_from_recipes ---- *)

\* the lines of a document
DocLines(document) == split_on(document, "\n")

IsHeadingLine(line) == startswith(line, <<"#", "#", " ">>)

IsCheckboxLine(line) == startswith(line, <<"-", " ", "[", " ", "]", " ">>)

\* the merged (name, unit, quantity) entries of the recipes of a batch that load
Entries(batch) ==
    LET merged == merge_ingredients(load_all(batch, RecipesDir, 1, <<>>, <<>>).value)
    IN  { [name |-> key[1], unit |-> key[2], quantity |-> MergeTotal(merged, key)] :
          key \in MergeKeys(merged) }

\* the checkbox line an entry is to be rendered as
Rendered(e) ==
    IF e.unit # <<>>
    THEN <<"-", " ", "[", " ", "]", " ">> \o format_quantity(e.quantity) \o <<" ">>
         \o pluralize_unit(e.unit, e.quantity) \o <<" ">> \o e.name
    ELSE <<"-", " ", "[", " ", "]", " ">> \o format_quantity(e.quantity) \o <<" ">> \o e.name

\* the category headings in the order they are to appear
HeadingOrder ==
    << <<"#", "#", " ", "P", "r", "o", "d", "u", "c", "e">>, <<"#", "#", " ", "M", "e", "a", "t">>, <<"#", "#", " ", "D", "a", "i", "r", "y">>, <<"#", "#", " ", "P", "a", "n", "t", "r", "y">>, <<"#", "#", " ", "F", "r", "o", "z", "e", "n">>,
       <<"#", "#", " ", "B", "a", "k", "e", "r", "y">>, <<"#", "#", " ", "O", "t", "h", "e", "r">> >>

\* the lines i < j of a document belong to the same section
SameSection(lines, i, j) == \A k \in i..j : ~IsHeadingLine(lines[k])

\* a comes strictly before b in alphabetical order (a space before any letter)
RECURSIVE AlphabeticallyBefore(_, _)
AlphabeticallyBefore(a, b) ==
    LET Alphabet == <<" ">> \o LowerCase
        rank(c)  == CHOOSE i \in 1..Len(Alphabet) : Alphabet[i] = c
    IN  IF b = <<>> THEN FALSE
        ELSE IF a = <<>> THEN TRUE
        ELSE IF a[1] # b[1] THEN rank(a[1]) < rank(b[1])
        ELSE AlphabeticallyBefore(Tail(a), Tail(b))

\* C18: in every returned document the category headings appear at most once
\* each and in the relative order Produce, Meat, Dairy, Pantry, Frozen, Bakery,
\* Other; every heading has at least one entry under it; and the entries under
\* a heading are in ascending alphabetical order of ingredient name.
C18_HeadingsAndEntriesOrdered ==
    (pc = "return" /\ ret.raised = "") =>
        LET lines   == DocLines(ret.value)
            entries == Entries(arg)
            rank(line) == CHOOSE k \in 1..Len(HeadingOrder) : HeadingOrder[k] = line
        IN  /\ \A i \in 1..Len(lines) : IsHeadingLine(lines[i]) =>
                  /\ \E k \in 1..Len(HeadingOrder) : HeadingOrder[k] = lines[i]
                  /\ \A j \in (i + 1)..Len(lines) :
                         IsHeadingLine(lines[j]) => rank(lines[i]) < rank(lines[j])
                  /\ \E j \in (i + 1)..Len(lines) :
                         IsCheckboxLine(lines[j]) /\ SameSection(lines, i + 1, j)
            /\ \A i, j \in 1..Len(lines) :
                  (i < j /\ IsCheckboxLine(lines[i]) /\ IsCheckboxLine(lines[j])
                         /\ SameSection(lines, i, j)) =>
                      \E a, b \in entries :
                          /\ Rendered(a) = lines[i] /\ Rendered(b) = lines[j]
                          /\ ~AlphabeticallyBefore(b.name, a.name)

\* a document with all seven headings in which sorting moved an entry of the
\* pantry section
C18_Witness ==
    /\ pc = "return" /\ ret.raised = ""
    /\ \A k \in 1..Len(HeadingOrder) :
           \E i \in 1..Len(DocLines(ret.value)) : DocLines(ret.value)[i] = HeadingOrder[k]
    /\ LET pantry == SelectSeq(categorize_from(
                         merge_ingredients(load_all(arg, RecipesDir, 1, <<>>, <<>>).value), 1, 1),
                         LAMBDA x : x.category = "Pantry")
       IN  \E i, j \in 1..Len(pantry) :
               i < j /\ AlphabeticallyBefore(pantry[j].ingredient_name, pantry[i].ingredient_name)

\* C19: every entry of the grocery list is rendered as
\* "- [ ] <formatted quantity> <pluralized unit> <name>" when its canonical
\* unit is non-empty and as "- [ ] <formatted quantity> <name>", without a unit
\* token and without a doubled space, when its canonical unit is empty; the
\* document starts with the level-1 heading "Grocery List".
C19_EntryRendering ==
    (pc = "return" /\ ret.raised = "") =>
        LET lines    == DocLines(ret.value)
            entries  == Entries(arg)
            rendered == { Rendered(e) : e \in entries }
        IN  /\ lines[1] = <<"#", " ", "G", "r", "o", "c", "e", "r", "y", " ", "L", "i", "s", "t">>
            /\ \A line \in rendered : \E i \in 1..Len(lines) : lines[i] = line
            /\ \A e \in entries : e.unit = <<>> => ~Contains(Rendered(e), <<" ", " ">>)
            /\ \A i \in 1..Len(lines) :
                   \/ lines[i] \in rendered
                   \/ IsHeadingLine(lines[i])
                   \/ lines[i] = <<>>
                   \/ i = 1
                   \/ ret.value = NoIngredientsDocument

\* a document with an entry that has a unit, one of them in the plural, and an
\* entry that has none
C19_Witness ==
    /\ pc = "return" /\ ret.raised = ""
    /\ \E e \in Entries(arg) : e.unit = <<>>
    /\ \E e \in Entries(arg) : e.unit # <<>> /\ pluralize_unit(e.unit, e.quantity) # e.unit
    /\ \E e \in Entries(arg) : e.unit # <<>> /\ pluralize_unit(e.unit, e.quantity) = e.unit

\* C20: a missing or unavailable recipe never aborts the call: for any batch
\* in which some recipes cannot be read, the call returns a document, and it
\* is the document of the other recipes of the batch, wherever in the batch the
\* unavailable recipes occur.
C20_UnavailableNeverAborts ==
    pc2 = "return" => (ret.raised = "" /\ ret.value = ret2.value)

\* the ingredients parsed from the recipes of a batch that load
ParsedIngredients(batch) == load_all(batch, RecipesDir, 1, <<>>, <<>>).value

\* the document said to be returned when there is nothing to list
NoIngredientsFound ==
    <<"#", " ", "G", "r", "o", "c", "e", "r", "y", " ", "L", "i", "s", "t">> \o <<"\n", "\n">>
    \o <<"N", "o", " ", "i", "n", "g", "r", "e", "d", "i", "e", "n", "t", "s", " ", "f", "o", "u", "n", "d", " ", "i", "n", " ", "t", "h", "e", " ", "s", "p", "e", "c", "i", "f", "i", "e", "d", " ", "r", "e", "c", "i", "p", "e", "s", ".">> \o <<"\n">>

\* C21: when a batch yields no parsed ingredient (empty batch, every recipe
\* missing, recipes without ingredient lines) the fixed "no ingredients found"
\* document is returned, which has the "Grocery List" heading, no category
\* heading and no checkbox line; when at least one ingredient is parsed the
\* document has at least one category heading.
C21_NoIngredientsDocument ==
    (pc = "return" /\ ret.raised = "") =>
        LET lines == DocLines(ret.value)
        IN  IF ParsedIngredients(arg) = <<>>
            THEN /\ ret.value = NoIngredientsFound
                 /\ lines[1] = <<"#", " ", "G", "r", "o", "c", "e", "r", "y", " ", "L", "i", "s", "t">>
                 /\ \A i \in 1..Len(lines) :
                        ~IsHeadingLine(lines[i]) /\ ~IsCheckboxLine(lines[i])
            ELSE \E i \in 1..Len(lines) : \E k \in 1..Len(HeadingOrder) :
                     lines[i] = HeadingOrder[k]

\* a batch of a missing recipe and a recipe without an Ingredients section,
\* and a batch that is empty
C21_Witness ==
    /\ pc = "return" /\ ret.raised = ""
    /\ ParsedIngredients(arg) = <<>>
    /\ \/ arg = <<>>
       \/ /\ ret.warnings # <<>>
          /\ \E i \in 1..Len(arg) : ~IsUnavailable(arg[i])

\* the checkbox lines under a heading of a document
SectionEntries(lines, heading) ==
    { lines[j] : j \in { j \in 1..Len(lines) :
          /\ IsCheckboxLine(lines[j])
          /\ \E i \in 1..(j - 1) : lines[i] = heading /\ SameSection(lines, i + 1, j) } }

\* the batches of the two recipes with the ingredient lines
\* ('2 cups flour', '1/2 teaspoon salt') and ('1 cup flour', '1 tablespoon olive oil')
TwoRecipes == { << <<"p", "a", "n", "c", "a", "k", "e", "s">>, <<"b", "r", "e", "a", "d", ".", "m", "d">> >>, << <<"b", "r", "e", "a", "d", ".", "m", "d">>, <<"p", "a", "n", "c", "a", "k", "e", "s">> >> }

\* C22: end to end, for two recipes whose ingredient lines are '2 cups flour',
\* '1/2 teaspoon salt' and '1 cup flour', '1 tablespoon olive oil', the list
\* has under the Pantry heading the lines '- [ ] 3 cups flour',
\* '- [ ] 1 tablespoon olive oil' and '- [ ] 1/2 teaspoon salt', and flour
\* appears once only.
C22_EndToEnd ==
    (pc = "return" /\ arg \in TwoRecipes) =>
        /\ ret.raised = ""
        /\ SectionEntries(DocLines(ret.value), <<"#", "#", " ", "P", "a", "n", "t", "r", "y">>) =
               { <<"-", " ", "[", " ", "]", " ", "3", " ", "c", "u", "p", "s", " ", "f", "l", "o", "u", "r">>, <<"-", " ", "[", " ", "]", " ", "1", " ", "t", "a", "b", "l", "e", "s", "p", "o", "o", "n", " ", "o", "l", "i", "v", "e", " ", "o", "i", "l">>,
                 <<"-", " ", "[", " ", "]", " ", "1", "/", "2", " ", "t", "e", "a", "s", "p", "o", "o", "n", " ", "s", "a", "l", "t">> }
        /\ Cardinality({ i \in 1..Len(DocLines(ret.value)) :
                           Contains(DocLines(ret.value)[i], <<"f", "l", "o", "u", "r">>) }) = 1

\* the list of the two recipes has been returned
C22_Witness ==
    /\ pc = "return" /\ arg = << <<"p", "a", "n", "c", "a", "k", "e", "s">>, <<"b", "r", "e", "a", "d", ".", "m", "d">> >>
    /\ ret.raised = "" /\ ret.warnings = <<>>
    /\ RecipesDir[<<"p", "a", "n", "c", "a", "k", "e", "s", ".", "m", "d">>].lines[4] = <<"-", " ", "2", " ", "c", "u", "p", "s", " ", "f", "l", "o", "u", "r">>
    /\ RecipesDir[<<"b", "r", "e", "a", "d", ".", "m", "d">>].lines[2] = <<"-", " ", "1", " ", "c", "u", "p", " ", "f", "l", "o", "u", "r">>

\* C23: invocations of the pipeline share no mutable state: no invocation
\* modifies CATEGORY_KEYWORDS, and for any interleaving of the steps of two
\* invocations each one returns what it returns when run alone on its inputs.
C23_InvocationsIndependent ==
    /\ keywords = CATEGORY_KEYWORDS
    /\ pc = "return" => ret = generate_grocery_list_from_recipes(arg, RecipesDir)
    /\ pc2 = "return" => ret2 = generate_grocery_list_from_recipes(arg2, RecipesDir)

\* the first invocation has returned its document while the second, on other
\* recipes, is in the middle of merging
C23_Witness ==
    /\ pc = "return" /\ ret.raised = "" /\ ret.value # NoIngredientsDocument
    /\ pc2 = "merge" /\ arg2 # arg
    /\ frames[2].merged # <<>> /\ frames[2].n <= Len(frames[2].all_ingredients)

(* ---- the Ingredients section of a recipe file ---- *)

\* the lines of a file stripped of surrounding whitespace
Stripped(lines) == [i \in 1..Len(lines) |-> strip(lines[i])]

\* line i starts with '## Ingredients'
Opens(lines, i) == startswith(Stripped(lines)[i], <<"#", "#", " ", "I", "n", "g", "r", "e", "d", "i", "e", "n", "t", "s">>)

\* line i, read inside the section, starts with '## ' and does not contain
\* 'Ingredients'
Closes(lines, i) ==
    /\ startswith(Stripped(lines)[i], <<"#", "#", " ">>)
    /\ ~Contains(Stripped(lines)[i], <<"I", "n", "g", "r", "e", "d", "i", "e", "n", "t", "s">>)
    /\ \E s \in 1..(i - 1) : Opens(lines, s)

\* the bullet lines after the opening header and before the first closing one
SectionBullets(lines) ==
    { i \in 1..Len(lines) :
          /\ \E s \in 1..(i - 1) : Opens(lines, s)
          /\ \A c \in 1..i : ~Closes(lines, c)
          /\ startswith(Stripped(lines)[i], <<"-">>) \/ startswith(Stripped(lines)[i], <<"*">>)
          /\ parse_ingredient_line(Stripped(lines)[i]) # None }

\* what these lines parse to, in the order of the file
SectionIngredients(lines) ==
    LET bullets == SectionBullets(lines)
        nth(j)  == CHOOSE i \in bullets : Cardinality({ m \in bullets : m <= i }) = j
    IN  [j \in 1..Cardinality(bullets) |-> parse_ingredient_line(Stripped(lines)[nth(j)])]

\* C24: load_recipe_ingredients parses only the bullet lines (starting with
\* '-' or '*') after a line starting with '## Ingredients' and before the next
\* line starting with '## ' that does not contain 'Ingredients'; '###' headers
\* inside the section do not end it; after the closing header no line of the
\* file contributes, not even one of a later '## Ingredients' section.
C24_SectionScan ==
    (pc = "return" /\ arg.kind = "file") =>
        ret = Returned(SectionIngredients(arg.lines))

\* a file with a bullet line inside the section, and a second Ingredients
\* section with a bullet line after the closing header
C24_Witness ==
    /\ pc = "return" /\ arg.kind = "file" /\ Len(arg.lines) = 4
    /\ Opens(arg.lines, 1) /\ Closes(arg.lines, 2) /\ Opens(arg.lines, 3)
    /\ arg.lines[4] = <<"-", " ", "1", " ", "c", "u", "p", " ", "f", "l", "o", "u", "r">>
    /\ ret.value = <<>>

\* C25: every recipe title set in bold in the meal plan is turned into a
\* recipe identifier, its lower-cased text with hyphens for spaces, and that
\* identifier is among the recipes whose ingredients are loaded; a plan with
\* the title Breakfast Burritos has 'breakfast-burritos' among them.
C25_TitlesBecomeIdentifiers ==
    (pc = "return" /\ arg.kind = "file") =>
        \A k \in 1..Len(arg.titles) :
            arg.titles[k] # <<"N", "o", " ", "r", "e", "c", "i", "p", "e">> =>
                \E n \in 1..Len(arg2) : arg2[n] = replace_spaces(lower(arg.titles[k]))

\* C26: whichever way select_meal_with_llm chooses, for every suggestion of
\* the language model, a recipe it returns is one of the list that meets all
\* hard constraints: its category (compared in lower case, as the code
\* does) is the meal type, is_recipe_suitable holds for it, and its filename
\* is not in recently_used; it returns None exactly when the list holds no
\* such recipe.
C26_SelectionMeetsHardConstraints ==
    pc = "return" =>
        LET Hard(r) ==
                /\ lower(get(r, "Category", <<>>)) = arg.meal_type
                /\ is_recipe_suitable(r, Profile, arg.is_weeknight, [time |-> TimeConstraints])
                /\ \A n \in 1..Len(arg.recently_used) : r.filename # arg.recently_used[n]
        IN  /\ ret # NoRecipe =>
                (\E n \in 1..Len(arg.recipes) : arg.recipes[n] = ret) /\ Hard(ret)
            /\ ret = NoRecipe <=> ~\E n \in 1..Len(arg.recipes) : Hard(arg.recipes[n])

\* a substring match ("Pie" holds "pi") returned Pi although another
\* suitable recipe stands before it in the list, with a recipe used recently
C26_Witness ==
    /\ pc = "return"
    /\ arg.llm_suggestion = <<"P", "i", "e">>
    /\ ret # NoRecipe /\ ret.filename = <<"p", "i", ".", "m", "d">>
    /\ Len(arg.recipes) >= 3
    /\ arg.recipes[1].filename = <<"c", "h", "i", "c", "k", "e", "n", "-", "t", "e", "r", "i", "y", "a", "k", "i", "-", "b", "o", "w", "l", ".", "m", "d">>
    /\ arg.is_weeknight
    /\ arg.recently_used = << <<"g", "r", "i", "l", "l", "e", "d", "-", "s", "a", "l", "m", "o", "n", ".", "m", "d">> >>

\* the filenames of the recipes a plan selects for a date
SelectedOn(plan, date) ==
    LET meals == get(plan.week, day_name(date), <<>>)
    IN  { meals[m].filename : m \in { t \in DOMAIN meals : "filename" \in DOMAIN meals[t] } }

\* C27: in a plan generate_meal_plan returns, with min_days_between_repeats
\* = N and whichever meals are wanted per day, no recipe is selected on two
\* different days that are fewer than N days apart.
C27_NoRepeatWithinDays ==
    (pc = "return" /\ "week" \in DOMAIN ret) =>
        \A d1, d2 \in arg.week.start_date..arg.week.end_date :
            (d1 < d2 /\ d2 - d1 < arg.variety.min_days_between_repeats) =>
                SelectedOn(ret, d1) \cap SelectedOn(ret, d2) = {}

\* C28: every (name, unit) key of the merged map appears as exactly one
\* checkbox line of the document, under a category heading, and the document
\* has no other checkbox line.
C28_OneLinePerKey ==
    (pc = "return" /\ ret.raised = "") =>
        LET lines   == DocLines(ret.value)
            entries == Entries(arg)
            boxes   == { i \in 1..Len(lines) : IsCheckboxLine(lines[i]) }
        IN  /\ \A e \in entries : Cardinality({ i \in boxes : lines[i] = Rendered(e) }) = 1
            /\ Cardinality(boxes) = Cardinality(entries)
            /\ \A i \in boxes :
                   /\ \E e \in entries : lines[i] = Rendered(e)
                   /\ Cardinality({ h \in 1..(i - 1) :
                          /\ \E k \in 1..Len(HeadingOrder) : lines[h] = HeadingOrder[k]
                          /\ SameSection(lines, h + 1, i) }) = 1

\* a document for a merged map in which one name has two units
C28_Witness ==
    /\ pc = "return" /\ ret.raised = ""
    /\ \E e1, e2 \in Entries(arg) : e1.name = e2.name /\ e1.unit # e2.unit

\* a batch with its recipes in the opposite order
Reversed(batch) == [i \in 1..Len(batch) |-> batch[Len(batch) + 1 - i]]

\* C29: the document does not depend on the order of the input: the recipes
\* of a batch in another order give the same document character for
\* character, also when an ingredient name occurs with two canonical units.
C29_DocumentIndependentOfOrder ==
    (pc = "return" /\ ret.raised = "") =>
        ret.value = generate_grocery_list_from_recipes(Reversed(arg), RecipesDir).value

\* the numerator and the denominator of the fraction "n/d" at the end of a
\* rendered quantity
FractionShown(text) ==
    LET words == split(text)
        parts == split_on(words[Len(words)], "/")
    IN  [num |-> IntOf(parts[1]), den |-> IntOf(parts[2])]

\* C30: when format_quantity renders a non-negative quantity as a fraction or
\* as a mixed number, the fractional part is a proper fraction in lowest
\* terms, 0 < numerator < denominator <= 16; "0/1" and "1/1" never appear.
C30_ProperFraction ==
    (pc = "return" /\ FNonNegative(arg) /\ Contains(ret, <<"/">>)) =>
        /\ 0 < FractionShown(ret).num
        /\ FractionShown(ret).num < FractionShown(ret).den
        /\ FractionShown(ret).den <= max_denominator
        /\ Gcd(FractionShown(ret).num, FractionShown(ret).den) = 1

====
